---- MODULE Spec2Model ----
(***************************************************************************)
(* Data Flow Designer (stack-flow): the self-contained export bundler of   *)
(* src/services/selfContained.js, the artifact it assembles, and the       *)
(* artifact's life in a browser (bootstrap seeding of localStorage, edits,  *)
(* autosave, New, unload) from src/services/persistence.js and app.js.      *)
(*                                                                         *)
(* Text is a sequence of character codes.  A value that may be missing     *)
(* (a DOM element, a localStorage entry) is a sequence of length 0 or 1.   *)
(***************************************************************************)
EXTENDS Integers, Sequences, FiniteSets, TLC

(***************************************************************************)
(* Bounds of the model.                                                    *)
(***************************************************************************)
\* number of successive artifacts opened and re-exported
MaxGen == 2
\* nodes a diagram may hold
MaxNodes == 1
\* readings of Date.now() that differ
MaxClock == 2

(***************************************************************************)
(* Characters and text.                                                    *)
(***************************************************************************)
\* the printable ASCII characters, code 32 first (code 96 by its name)
Ascii ==
  << " ", "!", "\"", "#", "$", "%", "&", "'", "(", ")", "*", "+", ",", "-", ".", "/",
     "0", "1", "2", "3", "4", "5", "6", "7", "8", "9", ":", ";", "<", "=", ">", "?",
     "@", "A", "B", "C", "D", "E", "F", "G", "H", "I", "J", "K", "L", "M", "N", "O",
     "P", "Q", "R", "S", "T", "U", "V", "W", "X", "Y", "Z", "[", "\\", "]", "^", "_",
     "grave", "a", "b", "c", "d", "e", "f", "g", "h", "i", "j", "k", "l", "m", "n", "o",
     "p", "q", "r", "s", "t", "u", "v", "w", "x", "y", "z", "{", "|", "}", "~" >>

\* the code of a one-character string
Chr(c) == IF c = "\n" THEN 10 ELSE 31 + (CHOOSE i \in DOMAIN Ascii : Ascii[i] = c)

\* the text spelled by a tuple of one-character strings
Str(cs) == [i \in DOMAIN cs |-> Chr(cs[i])]

None == << >>
Some(x) == << x >>
Get(o) == o[1]

RECURSIVE Join(_, _, _)
\* the concatenation of the texts F[lo], ..., F[hi], halving the range
Join(F, lo, hi) ==
  IF lo > hi THEN << >>
  ELSE IF lo = hi THEN F[lo]
  ELSE LET mid == (lo + hi) \div 2 IN Join(F, lo, mid) \o Join(F, mid + 1, hi)

\* the concatenation of a sequence of texts
Concat(ts) == Join(ts, 1, Len(ts))

\* text t starts with text p at position i
StartsAt(t, i, p) ==
  /\ i + Len(p) - 1 <= Len(t)
  /\ \A k \in 1..Len(p) : t[i + k - 1] = p[k]

\* text t from position i to its end
From(t, i) == SubSeq(t, i, Len(t))

\* the least member of a non-empty set of numbers
Min(S) == CHOOSE i \in S : \A j \in S : i <= j

(***************************************************************************)
(* encodeBase64 / decodeBase64.                                            *)
(* unescape(encodeURIComponent(s)) is the UTF-8 byte string of s, and      *)
(* decodeURIComponent(escape(b)) reads a byte string back as UTF-8.        *)
(* A base64 text is the sequence of its digits' values, 64 for padding.   *)
(***************************************************************************)
\* mutant: the code unit is cut down to seven bits
Utf8OfCharSevenBits(cp) == << cp % 128 >>

\* the UTF-8 bytes of one code point of the Basic Multilingual Plane
Utf8OfChar(cp) ==
  IF cp < 128 THEN << cp >>
  ELSE IF cp < 2048 THEN << 192 + (cp \div 64), 128 + (cp % 64) >>
  ELSE << 224 + (cp \div 4096), 128 + ((cp \div 64) % 64), 128 + (cp % 64) >>

\* a UTF-16 code unit that is the first, resp. the second half of a surrogate pair
IsHighSurrogate(u) == u >= 55296 /\ u <= 56319
IsLowSurrogate(u) == u >= 56320 /\ u <= 57343

\* the UTF-8 bytes of the code point above the Basic Multilingual Plane that the
\* surrogate pair hi, lo stands for
Utf8OfPair(hi, lo) ==
  LET cp == 65536 + (hi - 55296) * 1024 + (lo - 56320)
  IN  << 240 + (cp \div 262144), 128 + ((cp \div 4096) % 64), 128 + ((cp \div 64) % 64),
         128 + (cp % 64) >>

\* the bytes written for code unit i of a well-formed string: those of the pair at
\* its first half, none at its second half
Utf8At(s, i) ==
  IF IsHighSurrogate(s[i]) /\ i < Len(s) /\ IsLowSurrogate(s[i + 1])
    THEN Utf8OfPair(s[i], s[i + 1])
  ELSE IF IsLowSurrogate(s[i]) /\ i > 1 /\ IsHighSurrogate(s[i - 1]) THEN << >>
  ELSE Utf8OfChar(s[i])

Utf8Encode(s) == Join([i \in 1..Len(s) |-> Utf8At(s, i)], 1, Len(s))

\* the surrogate pair of the code point of a four-byte sequence
PairOfUtf8(b0, b1, b2, b3) ==
  LET cp == (b0 - 240) * 262144 + (b1 - 128) * 4096 + (b2 - 128) * 64 + (b3 - 128)
  IN  << 55296 + ((cp - 65536) \div 1024), 56320 + ((cp - 65536) % 1024) >>

\* the character that starts at byte i of b, nothing at a continuation byte
Utf8CharAt(b, i) ==
  IF b[i] < 128 THEN << b[i] >>
  ELSE IF b[i] < 192 THEN << >>
  ELSE IF b[i] < 224 THEN << (b[i] - 192) * 64 + (b[i + 1] - 128) >>
  ELSE IF b[i] < 240
    THEN << (b[i] - 224) * 4096 + (b[i + 1] - 128) * 64 + (b[i + 2] - 128) >>
  ELSE PairOfUtf8(b[i], b[i + 1], b[i + 2], b[i + 3])

Utf8Decode(b) == Join([i \in 1..Len(b) |-> Utf8CharAt(b, i)], 1, Len(b))

\* the four base64 digits of the g-th group of three bytes of b
BtoaGroup(b, g) ==
  LET i == 3 * g - 2
  IN  IF i = Len(b) THEN << b[i] \div 4, (b[i] % 4) * 16, 64, 64 >>
      ELSE IF i + 1 = Len(b)
        THEN << b[i] \div 4, (b[i] % 4) * 16 + (b[i + 1] \div 16), (b[i + 1] % 16) * 4, 64 >>
      ELSE << b[i] \div 4, (b[i] % 4) * 16 + (b[i + 1] \div 16),
              (b[i + 1] % 16) * 4 + (b[i + 2] \div 64), b[i + 2] % 64 >>

btoa(b) ==
  LET groups == (Len(b) + 2) \div 3
  IN  Join([g \in 1..groups |-> BtoaGroup(b, g)], 1, groups)

\* the bytes of the g-th group of four base64 digits of d
AtobGroup(d, g) ==
  LET i == 4 * g - 3
  IN  IF d[i + 2] = 64 THEN << d[i] * 4 + (d[i + 1] \div 16) >>
      ELSE IF d[i + 3] = 64
        THEN << d[i] * 4 + (d[i + 1] \div 16), (d[i + 1] % 16) * 16 + (d[i + 2] \div 4) >>
      ELSE << d[i] * 4 + (d[i + 1] \div 16), (d[i + 1] % 16) * 16 + (d[i + 2] \div 4),
              (d[i + 2] % 4) * 64 + d[i + 3] >>

atob(d) ==
  LET groups == Len(d) \div 4
  IN  Join([g \in 1..groups |-> AtobGroup(d, g)], 1, groups)

encodeBase64(str) == btoa(Utf8Encode(str))
decodeBase64(b64) == Utf8Decode(atob(b64))

(***************************************************************************)
(* escapeForScriptTag and the text a script element hands back.            *)
(***************************************************************************)
\* the lower-case form of a character, as the regular expression's i flag folds it
Lower(c) == IF c >= 65 /\ c <= 90 THEN c + 32 ELSE c

ScriptClose == Str(<< "<", "/", "s", "c", "r", "i", "p", "t" >>)

\* /<\/script/i matches text t at position i
MatchesScriptClose(t, i) ==
  /\ i >= 1
  /\ i + Len(ScriptClose) - 1 <= Len(t)
  /\ \A k \in 1..Len(ScriptClose) : Lower(t[i + k - 1]) = ScriptClose[k]

\* what text.replace(/<\/script/gi, '<\\/script') writes for character i of t: the
\* replacement is the fixed lower-case text, with a backslash after the first character
ReplacedAt(t, i) ==
  IF MatchesScriptClose(t, i) THEN << t[i], Chr("\\") >>
  ELSE IF \E m \in (i - Len(ScriptClose) + 1)..(i - 1) : MatchesScriptClose(t, m)
    THEN << Lower(t[i]) >>
  ELSE << t[i] >>

ReplaceScriptClose(t) == Join([i \in 1..Len(t) |-> ReplacedAt(t, i)], 1, Len(t))

escapeForScriptTag(text) == ReplaceScriptClose(ReplaceScriptClose(text))

\* textContent of a script element whose raw text was written as t: the HTML
\* parser ends the element at the first script end tag
ScriptTextContent(t) ==
  LET ends == {i \in 1..Len(t) : MatchesScriptClose(t, i)}
  IN  IF ends = {} THEN t ELSE SubSeq(t, 1, Min(ends) - 1)

(***************************************************************************)
(* Diagrams and their JSON text.  A diagram is its title and the number of *)
(* its nodes; a node is written as an empty object and there are no edges. *)
(***************************************************************************)
UntitledTitle ==
  Str(<< "U", "n", "t", "i", "t", "l", "e", "d", " ", "d", "i", "a", "g", "r", "a", "m" >>)

createDiagram == [title |-> UntitledTitle, nodes |-> 0]

\* a character of a string as JSON.stringify writes it between the quotes
JsonQuoteChar(c) ==
  IF c = Chr("\"") THEN Str(<< "\\", "\"" >>)
  ELSE IF c = Chr("\\") THEN Str(<< "\\", "\\" >>)
  ELSE IF c = Chr("\n") THEN Str(<< "\\", "n" >>)
  ELSE << c >>

JsonString(t) ==
  Str(<< "\"" >>) \o Join([i \in 1..Len(t) |-> JsonQuoteChar(t[i])], 1, Len(t))
    \o Str(<< "\"" >>)

Spaces(n) == [i \in 1..n |-> Chr(" ")]

\* JSON.stringify's line break and indentation at nesting depth d
Indent(pretty, d) == IF pretty THEN Str(<< "\n" >>) \o Spaces(2 * d) ELSE << >>

\* JSON.stringify's separator after a member name
Colon(pretty) == IF pretty THEN Str(<< ":", " " >>) ELSE Str(<< ":" >>)

\* the k-th of the n items of the node array
JsonNodeItem(pretty, n, k) ==
  Indent(pretty, 2) \o Str(<< "{", "}" >>) \o (IF k < n THEN Str(<< "," >>) ELSE << >>)

JsonNodeArray(pretty, n) ==
  IF n = 0 THEN Str(<< "[", "]" >>)
  ELSE Str(<< "[" >>) \o Join([k \in 1..n |-> JsonNodeItem(pretty, n, k)], 1, n)
         \o Indent(pretty, 1) \o Str(<< "]" >>)

\* JSON.stringify(compact, null, pretty ? 2 : 0) of exportDiagram
exportDiagram(d, pretty) ==
  Concat(<< Str(<< "{" >>),
            Indent(pretty, 1), Str(<< "\"", "v", "\"" >>), Colon(pretty), Str(<< "1", "," >>),
            Indent(pretty, 1), Str(<< "\"", "t", "\"" >>), Colon(pretty), JsonString(d.title),
            Str(<< "," >>),
            Indent(pretty, 1), Str(<< "\"", "n", "\"" >>), Colon(pretty),
            JsonNodeArray(pretty, d.nodes), Str(<< "," >>),
            Indent(pretty, 1), Str(<< "\"", "e", "\"" >>), Colon(pretty), Str(<< "[", "]" >>),
            Indent(pretty, 0), Str(<< "}" >>) >>)

\* text t without its white space; for text outside string literals
StripWs(t) ==
  Join([i \in 1..Len(t) |-> IF t[i] \in {Chr(" "), Chr("\n")} THEN << >> ELSE << t[i] >>],
       1, Len(t))

\* the number of backslashes that stand right before position i, from position lo on
BackslashRun(t, lo, i) ==
  CHOOSE k \in 0..(i - lo) :
    /\ \A j \in (i - k)..(i - 1) : t[j] = Chr("\\")
    /\ (i - k = lo \/ t[i - k - 1] # Chr("\\"))

\* character i of a string literal that starts at lo is escaped by a backslash
Escaped(t, lo, i) == BackslashRun(t, lo, i) % 2 = 1

\* what JSON.parse reads from character i of a string literal that starts at lo
UnquotedAt(t, lo, i) ==
  IF Escaped(t, lo, i) THEN (IF t[i] = Chr("n") THEN << Chr("\n") >> ELSE << t[i] >>)
  ELSE IF t[i] = Chr("\\") THEN << >>
  ELSE << t[i] >>

\* an escape of the string literal at lo..hi that JSON.parse rejects
BadEscape(t, lo, hi) ==
  \E i \in lo..hi :
    /\ Escaped(t, lo, i)
    /\ t[i] \notin {Chr("\""), Chr("\\"), Chr("/"), Chr("n")}

RECURSIVE ReadNodes(_, _)
\* the items of the node array: their number and the text after the closing bracket
ReadNodes(t, first) ==
  IF StartsAt(t, 1, Str(<< "]" >>)) /\ first
    THEN [ok |-> TRUE, n |-> 0, rest |-> From(t, 2)]
  ELSE IF StartsAt(t, 1, Str(<< "{", "}", "," >>))
    THEN LET r == ReadNodes(From(t, 4), FALSE) IN [r EXCEPT !.n = r.n + 1]
  ELSE IF StartsAt(t, 1, Str(<< "{", "}", "]" >>))
    THEN [ok |-> TRUE, n |-> 1, rest |-> From(t, 4)]
  ELSE [ok |-> FALSE, n |-> 0, rest |-> << >>]

\* JSON.parse of a compact v1 diagram, written with any white space between its
\* tokens: None on a syntax error, else the object read.  The title literal opens
\* at the fifth quote of the text and closes at the next quote that is not escaped.
JsonParse(text) ==
  LET quotes == {i \in 1..Len(text) : text[i] = Chr("\"")}
      opens  == {i \in quotes : Cardinality({j \in quotes : j < i}) = 4}
      p1 == Str(<< "{", "\"", "v", "\"", ":", "1", ",", "\"", "t", "\"", ":", "\"" >>)
      p2 == Str(<< ",", "\"", "n", "\"", ":", "[" >>)
      p3 == Str(<< ",", "\"", "e", "\"", ":", "[", "]", "}" >>)
  IN  IF opens = {} THEN None
      ELSE LET lo == Min(opens) + 1
               closes == {i \in quotes : i >= lo /\ ~Escaped(text, lo, i)}
           IN  IF closes = {} \/ StripWs(SubSeq(text, 1, lo - 1)) # p1 THEN None
               ELSE LET hi == Min(closes) - 1
                        rest == StripWs(From(text, hi + 2))
                    IN  IF BadEscape(text, lo, hi) \/ ~StartsAt(rest, 1, p2) THEN None
                        ELSE LET ns == ReadNodes(From(rest, Len(p2) + 1), TRUE)
                             IN  IF ns.ok /\ ns.rest = p3
                                   THEN Some([v |-> 1,
                                              t |-> Join([i \in lo..hi |->
                                                            UnquotedAt(text, lo, i)], lo, hi),
                                              n |-> ns.n])
                                   ELSE None

\* the compact object exportDiagram serializes
Compact(d) == [v |-> 1, t |-> d.title, n |-> d.nodes]

\* the diagram importDiagram loads into the store from a parsed compact object
importDiagram(parsed) ==
  [title |-> IF parsed.t = << >> THEN UntitledTitle ELSE parsed.t, nodes |-> parsed.n]

(***************************************************************************)
(* The export: module list, documents, acquisition, assembly, delivery.    *)
(***************************************************************************)
\* two of the listed module paths, in the order of the list
MODULE_PATHS == << "src/core/store.js", "src/core/eventBus.js" >>

ModulePathSet == {MODULE_PATHS[i] : i \in DOMAIN MODULE_PATHS}

\* the module paths in the order Array.prototype.sort gives them
PathOrder == << "src/core/eventBus.js", "src/core/store.js" >>

RECURSIVE SortedFrom(_, _)
SortedFrom(ps, i) ==
  IF i > Len(PathOrder) THEN << >>
  ELSE (IF PathOrder[i] \in ps THEN << PathOrder[i] >> ELSE << >>) \o SortedFrom(ps, i + 1)

\* Object.keys(o).sort() for an object whose keys are the paths ps
SortedKeys(ps) == SortedFrom(ps, 1)

\* texts a hosted module file may hold: empty, or ASCII with two multi-byte characters
SourceTexts == { << >>, << 97, 233, 8364 >> }

\* the text of assets/styles.css on the server
CssFile == Str(<< "b", "{", "}" >>)

\* the text of html2canvas.min.js on the CDN
Html2CanvasFile == Str(<< "h", "2", "c" >>)

Titles == { UntitledTitle, Str(<< "<", "/", "S", "C", "R", "I", "P", "T", ">" >>) }

Diagrams == [title : Titles, nodes : 0..MaxNodes]

\* index.html of the hosted application: no manifest, a linked stylesheet, no snapshot
HostedDocument ==
  [manifest |-> None, inlineCss |-> None, initialDiagram |-> None,
   html2canvasInline |-> << >>, title |-> None]

\* the entry of sanitizeTitleForHtml's table for character c: what c is replaced by
TitleEntity(c) ==
  IF c = Chr("&") THEN Str(<< "&" >>)
  ELSE IF c = Chr("<") THEN Str(<< "<" >>)
  ELSE IF c = Chr(">") THEN Str(<< ">" >>)
  ELSE Str(<< "\"" >>)

\* the characters the expression /[&<>"]/g matches
IsMarkupChar(c) == c \in {Chr("&"), Chr("<"), Chr(">"), Chr("\"")}

sanitizeTitleForHtml(title) ==
  Join([i \in 1..Len(title) |->
          IF IsMarkupChar(title[i]) THEN TitleEntity(title[i]) ELSE << title[i] >>],
       1, Len(title))

\* the text of the title element the template writes around safeTitle
TitleElementText(safeTitle) ==
  safeTitle \o Str(<< " ", "-", " ", "D", "a", "t", "a", " ", "F", "l", "o", "w", " ",
                      "D", "e", "s", "i", "g", "n", "e", "r" >>)

\* step 6 of exportStandaloneHtml reads the title: store.getState()?.diagram?.title
\* || 'diagram'
TitleOfStore(d) ==
  IF d.title = << >> THEN Str(<< "d", "i", "a", "g", "r", "a", "m" >>) ELSE d.title

\* the style element's text: the template puts the CSS on a line of its own
InlineCssText(cssSafe) ==
  Str(<< "\n" >>) \o cssSafe \o Str(<< "\n", " ", " ", " ", " " >>)

\* the document the browser builds from the HTML text buildStandaloneHtml returns
buildStandaloneHtml(title, cssText, initialJson, html2canvasCode, embeddedRawModules) ==
  LET safeTitle == sanitizeTitleForHtml(IF title = << >> THEN UntitledTitle ELSE title)
      initialJsonSafe ==
        escapeForScriptTag(IF initialJson = << >> THEN Str(<< "{", "}" >>) ELSE initialJson)
      selfModulesPayload ==
        [filesBase64 |-> [q \in DOMAIN embeddedRawModules |->
                            encodeBase64(embeddedRawModules[q])],
         list |-> SortedKeys(DOMAIN embeddedRawModules),
         html2canvasBase64 |->
           IF html2canvasCode # << >> THEN encodeBase64(html2canvasCode) ELSE << >>,
         cssBase64 |-> IF cssText # << >> THEN encodeBase64(cssText) ELSE << >>]
  IN  [manifest |-> Some(selfModulesPayload),
       inlineCss |-> Some(InlineCssText(cssText)),
       initialDiagram |-> Some(ScriptTextContent(initialJsonSafe)),
       html2canvasInline |-> html2canvasCode,
       title |-> Some(TitleElementText(safeTitle))]

\* the manifest of document d, or None: the element is missing
readEmbeddedSelfModules(d) == d.manifest

\* getCssText up to its fetch: the text found in the document, or None
CssFromDocument(d) ==
  LET embedded == readEmbeddedSelfModules(d)
  IN  IF embedded # None /\ Get(embedded).cssBase64 # << >>
        THEN Some(decodeBase64(Get(embedded).cssBase64))
      ELSE IF d.inlineCss # None /\ Get(d.inlineCss) # << >> THEN d.inlineCss
      ELSE None

\* getHtml2CanvasCode up to its fetch: the library decoded from the manifest, or None
Html2CanvasFromDocument(d) ==
  LET embedded == readEmbeddedSelfModules(d)
  IN  IF embedded # None /\ Get(embedded).html2canvasBase64 # << >>
        THEN Some(decodeBase64(Get(embedded).html2canvasBase64))
      ELSE None

\* mutant: the cold strategy is always taken
FetchesAlways(d) == FALSE

\* collectModuleRawSources chooses the manifest whenever there is one
UsesManifest(d) == readEmbeddedSelfModules(d) # None

\* mutant: the warm loop tests the base64 text for truth, dropping an empty module
KeepsEntryTruthy(embedded, q) ==
  q \in DOMAIN embedded.filesBase64 /\ embedded.filesBase64[q] # << >>

\* the warm loop keeps the entry of path q: its base64 text is not null
KeepsEntry(embedded, q) == q \in DOMAIN embedded.filesBase64

\* rawSources of the warm strategy
DecodeManifest(embedded) ==
  LET kept == {q \in {embedded.list[i] : i \in DOMAIN embedded.list} :
                 KeepsEntry(embedded, q)}
  IN  [q \in kept |-> decodeBase64(embedded.filesBase64[q])]

Request(by, what, path) == [by |-> by, what |-> what, path |-> path]

\* the state of an exportStandaloneHtml call: where it stands (pc), its locals, the
\* module fetches in flight, and what has happened to it (failed: the modules whose
\* fetch failed; cssFailed, libFailed: that fetch failed; saved: downloadBlob ran)
IdleExport ==
  [pc |-> "idle", initialJson |-> << >>, cssText |-> << >>,
   rawSources |-> [q \in {} |-> << >>], list |-> << >>, pending |-> {},
   html2canvasCode |-> << >>, failed |-> {}, cssFailed |-> FALSE, libFailed |-> FALSE,
   saved |-> FALSE]

VARIABLES
  doc,          \* the document the application runs in
  files,        \* the module texts the server hosts
  store,        \* the diagram in the application's store
  exp,          \* the running exportStandaloneHtml call
  net,          \* the network requests issued since the page was opened
  delivered,    \* the file downloadBlob saved from this page, if any
  gen,          \* how many artifacts have been opened one after the other
  win,          \* window.html2canvas and the script element that loads it
  page,         \* closed, booted (bootstrap done) or running (application started)
  localStorage, \* the entries dataFlowDiagram and dataFlowDiagram_timestamp
  now,          \* Date.now()
  userChanged,  \* the user has changed the diagram inside the artifact
  exported,     \* the diagram the artifact's snapshot was taken from
  seedThrew,    \* the try block of the last bootstrap ended in its catch
  input,        \* the arguments of the function under examination
  output        \* what it returned, once it has run

vars == << doc, files, store, exp, net, delivered, gen, win, page, localStorage, now,
           userChanged, exported, seedThrew, input, output >>

\* the arguments and the result of a function examined on its own
callVars == << input, output >>

lifeVars == << page, localStorage, now, userChanged, exported, seedThrew, callVars >>
exportVars == << files, exp, net, delivered, gen, win, callVars >>

\* no function is examined on its own
NoCall == input = << >> /\ output = None

IsArtifact(d) == d # HostedDocument

(***************************************************************************)
(* exportStandaloneHtml, one action per stretch between two awaits.        *)
(***************************************************************************)
\* mutant: getCssText lets the failure of its fetch through
AfterCssFailureRejects(e) == [e EXCEPT !.cssFailed = TRUE, !.pc = "rejected"]

\* getCssText when its fetch fails: a warning, and the empty text is returned
AfterCssFailure(e) == [e EXCEPT !.cssText = << >>, !.cssFailed = TRUE, !.pc = "gotCss"]

\* mutant: the failures are collected and the group settles when all fetches are done
AfterModuleFailureSettles(e, q) ==
  [e EXCEPT !.pending = @ \ {q}, !.failed = @ \cup {q},
            !.list = MODULE_PATHS,
            !.pc = IF e.pending = {q} THEN "gotModules" ELSE @]

\* Promise.all when the fetch of module q fails: the export rejects
AfterModuleFailure(e, q) ==
  [e EXCEPT !.pending = @ \ {q}, !.failed = @ \cup {q}, !.pc = "rejected"]

\* mutant: getHtml2CanvasCode lets the failure of its fetch through
AfterLibFailureRejects(e) == [e EXCEPT !.libFailed = TRUE, !.pc = "rejected"]

\* mutant: a failed fetch leaves a comment in place of the library
AfterLibFailurePlaceholder(e) ==
  [e EXCEPT !.html2canvasCode = Str(<< "/", "/" >>), !.libFailed = TRUE, !.pc = "gotLib"]

\* getHtml2CanvasCode when its fetch fails: a warning, and the empty text is returned
AfterLibFailure(e) ==
  [e EXCEPT !.html2canvasCode = << >>, !.libFailed = TRUE, !.pc = "gotLib"]

\* steps 1 and 2: the snapshot is taken and getCssText runs up to its fetch
ExportBegin ==
  /\ page = "running"
  /\ exp.pc \in {"idle", "done", "rejected"}
  /\ exp.pending = {}
  /\ LET e0  == [IdleExport EXCEPT !.initialJson = exportDiagram(store, FALSE)]
         css == CssFromDocument(doc)
     IN  IF css # None
           THEN /\ exp' = [e0 EXCEPT !.cssText = Get(css), !.pc = "gotCss"]
                /\ net' = net
           ELSE /\ exp' = [e0 EXCEPT !.pc = "cssFetch"]
                /\ net' = net \cup {Request("export", "css", "./assets/styles.css")}
  /\ UNCHANGED << doc, files, store, delivered, gen, win, lifeVars >>

CssFetchOk ==
  /\ exp.pc = "cssFetch"
  /\ exp' = [exp EXCEPT !.cssText = CssFile, !.pc = "gotCss"]
  /\ UNCHANGED << doc, files, store, net, delivered, gen, win, lifeVars >>

CssFetchFail ==
  /\ exp.pc = "cssFetch"
  /\ exp' = AfterCssFailure(exp)
  /\ UNCHANGED << doc, files, store, net, delivered, gen, win, lifeVars >>

\* step 3: collectModuleRawSources up to its fetches
CollectModules ==
  /\ exp.pc = "gotCss"
  /\ IF UsesManifest(doc)
       THEN LET embedded == Get(readEmbeddedSelfModules(doc))
            IN  /\ exp' = [exp EXCEPT !.rawSources = DecodeManifest(embedded),
                                      !.list = embedded.list, !.pc = "gotModules"]
                /\ net' = net
       ELSE /\ exp' = [exp EXCEPT !.pending = ModulePathSet, !.pc = "modFetch"]
            /\ net' = net \cup {Request("export", "module", q) : q \in ModulePathSet}
  /\ UNCHANGED << doc, files, store, delivered, gen, win, lifeVars >>

\* the fetch of module q completes; the last one of an unfailed group resolves Promise.all
ModuleFetchOk(q) ==
  /\ q \in exp.pending
  /\ LET left == exp.pending \ {q}
         raw  == [x \in DOMAIN exp.rawSources \cup {q} |->
                    IF x = q THEN files[q] ELSE exp.rawSources[x]]
     IN  exp' = IF exp.pc = "modFetch" /\ left = {}
                  THEN [exp EXCEPT !.rawSources = raw, !.pending = left,
                                   !.list = MODULE_PATHS, !.pc = "gotModules"]
                  ELSE [exp EXCEPT !.rawSources = raw, !.pending = left]
  /\ UNCHANGED << doc, files, store, net, delivered, gen, win, lifeVars >>

ModuleFetchFail(q) ==
  /\ q \in exp.pending
  /\ exp' = AfterModuleFailure(exp, q)
  /\ UNCHANGED << doc, files, store, net, delivered, gen, win, lifeVars >>

\* steps 4 and 5: the import map is built and getHtml2CanvasCode runs up to its fetch
InlineLibrary ==
  /\ exp.pc = "gotModules"
  /\ LET lib == Html2CanvasFromDocument(doc)
     IN  IF lib # None
           THEN /\ exp' = [exp EXCEPT !.html2canvasCode = Get(lib), !.pc = "gotLib"]
                /\ net' = net
           ELSE /\ exp' = [exp EXCEPT !.pc = "libFetch"]
                /\ net' = net \cup {Request("export", "cdn", "html2canvas.min.js")}
  /\ UNCHANGED << doc, files, store, delivered, gen, win, lifeVars >>

LibFetchOk ==
  /\ exp.pc = "libFetch"
  /\ exp' = [exp EXCEPT !.html2canvasCode = Html2CanvasFile, !.pc = "gotLib"]
  /\ UNCHANGED << doc, files, store, net, delivered, gen, win, lifeVars >>

LibFetchFail ==
  /\ exp.pc = "libFetch"
  /\ exp' = AfterLibFailure(exp)
  /\ UNCHANGED << doc, files, store, net, delivered, gen, win, lifeVars >>

\* steps 6 and 7: the document is assembled and downloadBlob saves it
Deliver ==
  /\ exp.pc = "gotLib"
  /\ delivered' = Some(buildStandaloneHtml(TitleOfStore(store), exp.cssText, exp.initialJson,
                                           exp.html2canvasCode, exp.rawSources))
  /\ exp' = [exp EXCEPT !.pc = "done", !.saved = TRUE]
  /\ UNCHANGED << doc, files, store, net, gen, win, lifeVars >>

(***************************************************************************)
(* The page around the export.                                             *)
(***************************************************************************)
\* the inline library script of document d defines window.html2canvas
WindowOf(d) == [html2canvas |-> d.html2canvasInline # << >>, scriptTag |-> FALSE]

EmptyStorage == [diagram |-> None, timestamp |-> None]

\* mutant: the bootstrap seeds without looking for stored state
BootstrapSeedAlways(ls, d, t) ==
  IF d.initialDiagram # None /\ Get(d.initialDiagram) # << >>
    THEN [diagram |-> d.initialDiagram, timestamp |-> Some(t)]
    ELSE ls

\* the bootstrap script's try block, run in document d at time t on localStorage ls
BootstrapSeed(ls, d, t) ==
  IF ls.diagram = None \/ Get(ls.diagram) = << >>
    THEN IF d.initialDiagram # None /\ Get(d.initialDiagram) # << >>
           THEN [diagram |-> d.initialDiagram, timestamp |-> Some(t)]
           ELSE ls
    ELSE ls

\* loadSavedDiagram: the diagrams the store may hold once the application has
\* started: the stored one if it has nodes and the user accepts the prompt, else
\* the new diagram the store is built with
LoadChoices(ls) ==
  LET parsed == IF ls.diagram = None THEN None ELSE JsonParse(Get(ls.diagram))
  IN  {createDiagram} \cup
      (IF parsed # None /\ Get(parsed).n > 0 THEN {importDiagram(Get(parsed))} ELSE {})

\* the same for artifact d opened in a browser whose localStorage is empty
StartDiagrams(d) == LoadChoices(BootstrapSeed(EmptyStorage, d, 0))

\* the user opens the file just saved, in a browser whose localStorage is empty
OpenArtifact ==
  /\ delivered # None
  /\ gen < MaxGen
  /\ exp.pending = {}
  /\ doc' = Get(delivered)
  /\ delivered' = None
  /\ gen' = gen + 1
  /\ exp' = IdleExport
  /\ net' = {}
  /\ win' = WindowOf(doc')
  /\ store' \in StartDiagrams(doc')
  /\ UNCHANGED << files, lifeVars >>

\* the user changes the diagram
EditDiagram(d) ==
  /\ page = "running"
  /\ d # store
  /\ store' = d
  /\ userChanged' = (userChanged \/ IsArtifact(doc))
  /\ UNCHANGED << doc, exportVars, page, localStorage, now, exported, seedThrew >>

\* exportViewportPng: ensureHtml2Canvas adds a script element for the CDN
\* unless window.html2canvas is set or the element is already there
ExportPng ==
  /\ page = "running"
  /\ IF win.html2canvas \/ win.scriptTag
       THEN UNCHANGED << win, net >>
       ELSE /\ win' = [win EXCEPT !.scriptTag = TRUE]
            /\ net' = net \cup {Request("png", "cdn", "html2canvas.min.js")}
  /\ UNCHANGED << doc, files, store, exp, delivered, gen, lifeVars >>

\* the script element added by ensureHtml2Canvas has loaded
PngScriptLoaded ==
  /\ win.scriptTag
  /\ ~win.html2canvas
  /\ win' = [win EXCEPT !.html2canvas = TRUE]
  /\ UNCHANGED << doc, files, store, exp, net, delivered, gen, lifeVars >>

\* downloadDiagram: the JSON export reads the store and saves a file
ExportJson ==
  /\ page = "running"
  /\ UNCHANGED vars

Init ==
  /\ doc = HostedDocument
  /\ files \in [ModulePathSet -> SourceTexts]
  /\ store \in Diagrams
  /\ exp = IdleExport
  /\ net = {}
  /\ delivered = None
  /\ gen = 0
  /\ win = WindowOf(HostedDocument)
  /\ page = "running"
  /\ localStorage = EmptyStorage
  /\ now = 0
  /\ userChanged = FALSE
  /\ exported = createDiagram
  /\ seedThrew = FALSE
  /\ NoCall

Next ==
  \/ ExportBegin
  \/ CssFetchOk
  \/ CssFetchFail
  \/ CollectModules
  \/ \E q \in ModulePathSet : ModuleFetchOk(q)
  \/ \E q \in ModulePathSet : ModuleFetchFail(q)
  \/ InlineLibrary
  \/ LibFetchOk
  \/ LibFetchFail
  \/ Deliver
  \/ OpenArtifact
  \/ ExportPng
  \/ PngScriptLoaded
  \/ ExportJson

Spec == Init /\ [][Next]_vars

(***************************************************************************)
(* Claims about the export.                                                *)
(***************************************************************************)
\* the path-to-source map a manifest decodes to
ManifestSources(m) == [q \in DOMAIN m.filesBase64 |-> decodeBase64(m.filesBase64[q])]

\* the export has its module sources
HasModules == exp.pc \in {"gotModules", "libFetch", "gotLib", "done"}

\* C1: an export that runs in a document with a valid manifest issues no network
\* request, for modules, stylesheet or library
C1_NoNetworkOnReexport ==
  doc.manifest # None => \A r \in net : r.by # "export"

\* C2: an artifact exported from a document that carries a manifest has a manifest
\* that decodes to the same path-to-source map, at every generation of re-export
C2_RebundleFixedPoint ==
  (doc.manifest # None /\ delivered # None) =>
     ManifestSources(Get(Get(delivered).manifest)) = ManifestSources(Get(doc.manifest))

C2_Witness ==
  /\ gen = 2
  /\ delivered # None
  /\ \E q \in ModulePathSet : files[q] = << >>
  /\ \E q \in ModulePathSet : files[q] # << >>

\* C3: with a manifest in the document the module sources come from the manifest
\* alone and no module fetch is ever issued; modules are fetched only without one
C3_WarmPriority ==
  /\ doc.manifest # None =>
       /\ \A r \in net : ~(r.by = "export" /\ r.what = "module")
       /\ exp.pending = {}
       /\ HasModules => exp.rawSources = ManifestSources(Get(doc.manifest))
  /\ (doc.manifest = None /\ (HasModules \/ exp.pc = "modFetch")) =>
       \A q \in ModulePathSet : Request("export", "module", q) \in net

C3_Witness == doc.manifest # None /\ exp.pc = "gotModules"

\* C4: a failed module fetch rejects the export whatever the other fetches do, and
\* nothing is assembled or saved; the export goes on only with every module fetched
C4_AllOrNothing ==
  /\ exp.failed # {} => (exp.pc = "rejected" /\ ~exp.saved)
  /\ HasModules =>
       /\ exp.failed = {}
       /\ DOMAIN exp.rawSources = {exp.list[i] : i \in DOMAIN exp.list}
  /\ exp.saved => HasModules

C4_Witness ==
  /\ exp.pc = "rejected"
  /\ exp.failed # {}
  /\ exp.pending = {}
  /\ DOMAIN exp.rawSources # {}
  /\ delivered = None

C7_ZeroNetworkArtifact ==
  doc.manifest # None => \A r \in net : r.by # "png"

(***************************************************************************)
(* The life of one artifact in a browser.                                  *)
(***************************************************************************)
\* saveDiagramToStorage at time t with diagram st in the store
saveDiagramToStorage(ls, st, t) ==
  [diagram |-> Some(exportDiagram(st, TRUE)), timestamp |-> Some(t)]

\* mutant: no handler saves the diagram when the page unloads
BeforeUnloadNothing(ls, st, t) == ls

\* the beforeunload handler of persistence.js (autosave is enabled)
BeforeUnload(ls, st, t) == saveDiagramToStorage(ls, st, t)

\* clearSavedDiagram
clearSavedDiagram(ls) == EmptyStorage

\* the calls of the try block that may throw: none does, or getItem, or the first
\* or the second setItem
Throwers == {"none", "getItem", "setItemDiagram", "setItemTimestamp"}

\* localStorage after the try block in which the call thrower throws
BootstrapTry(ls, d, t, thrower) ==
  LET seeded == BootstrapSeed(ls, d, t)
  IN  IF thrower = "getItem" THEN ls
      ELSE IF thrower = "setItemDiagram" \/ seeded = ls THEN ls
      ELSE IF thrower = "setItemTimestamp" THEN [ls EXCEPT !.diagram = seeded.diagram]
      ELSE seeded

\* the try block reached the call thrower, so that it did throw
Reaches(ls, d, t, thrower) ==
  \/ thrower \in {"none", "getItem"}
  \/ BootstrapSeed(ls, d, t) # ls

\* mutant: the entry module is imported at the end of the try block
PageAfterBootstrapInTry(threw) == IF threw THEN "failed" ELSE "booted"

\* the page after the bootstrap function: import('__m__/src/app.js') follows the
\* catch, so the entry module is asked for whether or not the try block threw
PageAfterBootstrap(threw) == "booted"

\* the page is opened: the bootstrap script runs in one go, from its check to its
\* import of the entry module
Bootstrap ==
  /\ page = "closed"
  /\ \E thrower \in Throwers :
       /\ Reaches(localStorage, doc, now, thrower)
       /\ localStorage' = BootstrapTry(localStorage, doc, now, thrower)
       /\ seedThrew' = (thrower # "none")
       /\ page' = PageAfterBootstrap(thrower # "none")
  /\ UNCHANGED << doc, store, exportVars, now, userChanged, exported >>

\* the entry module has loaded: DataFlowApp starts and loadSavedDiagram runs
AppStart ==
  /\ page = "booted"
  /\ store' \in LoadChoices(localStorage)
  /\ page' = "running"
  /\ UNCHANGED << doc, exportVars, localStorage, now, userChanged, exported, seedThrew >>

\* the autosave timer fires
Autosave ==
  /\ page = "running"
  /\ localStorage' = saveDiagramToStorage(localStorage, store, now)
  /\ UNCHANGED << doc, store, exportVars, page, now, userChanged, exported, seedThrew >>

\* DataFlowApp.newDiagram; the user may cancel when the diagram has content
NewDiagram ==
  /\ page = "running"
  /\ \E proceed \in BOOLEAN :
       IF store.nodes > 0 /\ ~proceed
         THEN UNCHANGED << store, localStorage, userChanged >>
         ELSE /\ localStorage' = clearSavedDiagram(localStorage)
              /\ store' = createDiagram
              /\ userChanged' = (userChanged \/ IsArtifact(doc))
  /\ UNCHANGED << doc, exportVars, page, now, exported, seedThrew >>

\* the page is closed or reloaded; the handler is there once the application runs
Unload ==
  /\ page \in {"booted", "running"}
  /\ localStorage' = IF page = "running" THEN BeforeUnload(localStorage, store, now)
                     ELSE localStorage
  /\ page' = "closed"
  /\ store' = createDiagram
  /\ seedThrew' = FALSE
  /\ UNCHANGED << doc, exportVars, now, userChanged, exported >>

\* time passes
Tick ==
  /\ now < MaxClock
  /\ now' = now + 1
  /\ UNCHANGED << doc, store, exportVars, page, localStorage, userChanged, exported,
                  seedThrew >>

\* an artifact exported from some diagram is about to be opened in a browser whose
\* localStorage is empty or holds what an earlier session of the application saved
InitLife ==
  /\ exported \in Diagrams
  /\ files = [q \in ModulePathSet |-> << 97, 233, 8364 >>]
  /\ doc = buildStandaloneHtml(TitleOfStore(exported), CssFile,
                               exportDiagram(exported, FALSE),
                               Html2CanvasFile, files)
  /\ store = createDiagram
  /\ exp = IdleExport
  /\ net = {}
  /\ delivered = None
  /\ gen = 1
  /\ win = WindowOf(doc)
  /\ page = "closed"
  /\ localStorage \in {EmptyStorage} \cup
                      {saveDiagramToStorage(EmptyStorage, d, 0) : d \in Diagrams}
  /\ now = 0
  /\ userChanged = FALSE
  /\ seedThrew = FALSE
  /\ NoCall

NextLife ==
  \/ Bootstrap
  \/ AppStart
  \/ \E d \in Diagrams : EditDiagram(d)
  \/ Autosave
  \/ NewDiagram
  \/ Unload
  \/ Tick

SpecLife == InitLife /\ [][NextLife]_vars

(***************************************************************************)
(* Claims about the bootstrap and the persisted diagram.                   *)
(***************************************************************************)
\* the step is a run of the bootstrap script
BootstrapStep == page = "closed" /\ page' = "booted"

\* C8: when the diagram-state key is present as the artifact loads, the bootstrap
\* writes neither it nor the timestamp key
C8_SeedOnceExisting ==
  [][(BootstrapStep /\ localStorage.diagram # None) => localStorage' = localStorage]_vars

C8_Witness ==
  /\ page = "booted"
  /\ localStorage.diagram # None
  /\ localStorage.diagram # doc.initialDiagram
  /\ Get(localStorage.timestamp) < now

\* C9: when localStorage holds no diagram state as the artifact loads, the bootstrap
\* stores the embedded snapshot and a timestamp, and what it stores reads back as
\* the diagram that was exported
C9_SeedFromSnapshot ==
  [][(BootstrapStep /\ ~seedThrew' /\ localStorage.diagram = None) =>
        /\ localStorage'.diagram = doc.initialDiagram
        /\ localStorage'.timestamp = Some(now)
        /\ JsonParse(Get(localStorage'.diagram)) = Some(Compact(exported))]_vars

\* C11: the check and the seed are one step of the page, taken before any code of
\* the application runs: until it is taken nothing else reads the stored diagram
\* into the store or writes localStorage, and it always ends with the entry module
\* asked for, also when the try block threw
C11_BootstrapOrdering ==
  [][(page = "closed" =>
        (BootstrapStep \/
         (page' = "closed" /\ localStorage' = localStorage /\ store' = store)))
     /\ ((localStorage' # localStorage /\ ~BootstrapStep) => page = "running")
     /\ (store' # store => page \in {"booted", "running"})
     /\ (seedThrew' => page' \in {"booted", "running"})]_vars

C11_Witness ==
  /\ seedThrew
  /\ page = "running"
  /\ localStorage.diagram # None
  /\ localStorage.timestamp = None

MaxRelLen == 5

Slash == Chr("/")
Dot == << Chr(".") >>
DotDot == << Chr("."), Chr(".") >>

\* p.lastIndexOf('/'), 0 when there is none
LastSlash(p) ==
  LET at == {i \in 1..Len(p) : p[i] = Slash}
  IN  IF at = {} THEN 0 ELSE CHOOSE i \in at : \A j \in at : j <= i

dirname(p) == IF LastSlash(p) = 0 THEN << >> ELSE SubSeq(p, 1, LastSlash(p) - 1)

\* the position of the k-th slash of path; 0 for k = 0 and Len + 1 past the last
SlashAt(path, k) ==
  LET at == {i \in 1..Len(path) : path[i] = Slash}
  IN  IF k = 0 THEN 0
      ELSE IF k > Cardinality(at) THEN Len(path) + 1
      ELSE CHOOSE i \in at : Cardinality({j \in at : j < i}) = k - 1

\* path.split('/'): one segment more than there are slashes
Split(path) ==
  LET n == Cardinality({i \in 1..Len(path) : path[i] = Slash})
  IN  [k \in 1..(n + 1) |-> SubSeq(path, SlashAt(path, k - 1) + 1, SlashAt(path, k) - 1)]

\* mutant: only the empty segment is skipped
SkipsSegmentEmpty(seg) == seg = << >>

\* if (!seg || seg === '.') return
SkipsSegment(seg) == seg = << >> \/ seg = Dot

\* if (parts.length) parts.pop()
PopSegment(parts) == IF parts # << >> THEN SubSeq(parts, 1, Len(parts) - 1) ELSE parts

RECURSIVE NormalizeParts(_, _, _)
\* the forEach of normalizePath from segment k on, with parts built so far
NormalizeParts(segs, k, parts) ==
  IF k > Len(segs) THEN parts
  ELSE IF SkipsSegment(segs[k]) THEN NormalizeParts(segs, k + 1, parts)
  ELSE IF segs[k] = DotDot THEN NormalizeParts(segs, k + 1, PopSegment(parts))
  ELSE NormalizeParts(segs, k + 1, Append(parts, segs[k]))

\* mutant: every part is followed by a slash
JoinPartsTrailing(parts) ==
  Join([k \in 1..Len(parts) |-> parts[k] \o << Slash >>], 1, Len(parts))

\* parts.join('/')
JoinParts(parts) ==
  Join([k \in 1..Len(parts) |-> IF k = 1 THEN parts[k] ELSE << Slash >> \o parts[k]],
       1, Len(parts))

normalizePath(path) == JoinParts(NormalizeParts(Split(path), 1, << >>))

resolveRelative(fromPath, rel) ==
  IF rel # << >> /\ rel[1] = Slash
    THEN normalizePath(From(rel, 2))
    ELSE LET baseDir == dirname(fromPath)
         IN  normalizePath((IF baseDir # << >> THEN baseDir \o << Slash >> ELSE << >>)
                             \o rel)

\* the characters paths are written with here
PathChars == {Chr("a"), Chr("."), Slash}

RECURSIVE TextsOver(_, _)
\* the texts of at most n characters of the set chars
TextsOver(chars, n) ==
  IF n = 0 THEN {<< >>}
  ELSE LET shorter == TextsOver(chars, n - 1)
       IN  shorter \cup {Append(t, c) : t \in {u \in shorter : Len(u) = n - 1}, c \in chars}

\* the specifiers handed to the resolver
Rels == TextsOver(PathChars, MaxRelLen) \ {<< >>}

\* the paths of the importing module: one at the root, one a directory down, one two
\* directories down, and the bare current directory
FromPaths ==
  {Str(<< "." >>), Str(<< "a" >>), Str(<< "a", "/", "a" >>),
   Str(<< "a", "/", "a", "/", "a" >>)}

InitResolve ==
  /\ doc = HostedDocument
  /\ files = [q \in ModulePathSet |-> << >>]
  /\ store = createDiagram
  /\ exp = IdleExport
  /\ net = {}
  /\ delivered = None
  /\ gen = 0
  /\ win = WindowOf(HostedDocument)
  /\ page = "closed"
  /\ localStorage = EmptyStorage
  /\ now = 0
  /\ userChanged = FALSE
  /\ exported = createDiagram
  /\ seedThrew = FALSE
  /\ input \in [fromPath : FromPaths, rel : Rels]
  /\ output = None

\* resolveRelative is called on the arguments
Resolve ==
  /\ output = None
  /\ output' = Some(resolveRelative(input.fromPath, input.rel))
  /\ UNCHANGED << doc, store, page, localStorage, now, userChanged, exported, seedThrew,
                  files, exp, net, delivered, gen, win, input >>

NextResolve == Resolve

SpecResolve == InitResolve /\ [][NextResolve]_vars

(***************************************************************************)
(* Claims about the resolver.                                              *)
(***************************************************************************)
\* text r has a segment, between slashes or the ends of the text, equal to seg
HasSegment(r, seg) ==
  \E i \in 1..(Len(r) + 1) :
    /\ i = 1 \/ r[i - 1] = Slash
    /\ i + Len(seg) - 1 <= Len(r)
    /\ \A k \in 1..Len(seg) : r[i + k - 1] = seg[k]
    /\ i + Len(seg) = Len(r) + 1 \/ r[i + Len(seg)] = Slash

\* how deep below the root the first k segments of a text lead, .. counted as a step
\* up whether or not there is a directory to leave
Depth(segs, k) ==
  Cardinality({j \in 1..k : segs[j] \notin {<< >>, Dot, DotDot}})
    - Cardinality({j \in 1..k : segs[j] = DotDot})

\* the text the resolver normalizes for the arguments
Joined(fromPath, rel) ==
  IF rel[1] = Slash THEN From(rel, 2)
  ELSE IF LastSlash(fromPath) = 0 THEN rel
  ELSE SubSeq(fromPath, 1, LastSlash(fromPath)) \o rel

\* the .. segments of the specifier lead above the root
AscendsPastRoot(fromPath, rel) ==
  LET segs == Split(Joined(fromPath, rel))
  IN  \E k \in 1..Len(segs) : Depth(segs, k) < 0

\* C14: when the .. segments of the specifier lead above the root, the resolver
\* reports an error and returns no path
C14_RefusesAscend ==
  AscendsPastRoot(input.fromPath, input.rel) => output = None

IsNormalized(pth) ==
  /\ pth # << >>
  /\ ~HasSegment(pth, << >>)
  /\ ~HasSegment(pth, Dot)
  /\ ~HasSegment(pth, DotDot)

\* C16: resolving a normalized path against the current directory returns the
\* path itself, and normalizing what the resolver returned changes nothing
C16_ResolveIdempotent ==
  output # None =>
     /\ (input.fromPath = Dot /\ IsNormalized(input.rel)) => Get(output) = input.rel
     /\ normalizePath(Get(output)) = Get(output)
     /\ resolveRelative(Dot, Get(output)) = Get(output)

C16_Witness ==
  /\ output # None
  /\ input.fromPath = Dot
  /\ IsNormalized(input.rel)
  /\ HasSegment(input.rel, << Chr("a") >>)
  /\ \E i \in 1..Len(input.rel) : input.rel[i] = Slash

(***************************************************************************)
(* rewriteImportsToVirtual: four replace calls, each with one regular      *)
(* expression that is matched from left to right.                          *)
(***************************************************************************)
MaxStmts == 2

\* character i of text t, 0 outside the text
CharAt(t, i) == IF i >= 1 /\ i <= Len(t) THEN t[i] ELSE 0

\* \s, for the white space the texts here are written with
IsWs(c) == c \in {Chr(" "), Chr("\n")}

\* a word character, for \b
IsWord(c) == c \in ((48..57) \cup (65..90) \cup (97..122) \cup {Chr("_")})

\* ['"]
IsQuote(c) == c \in {Chr("'"), Chr("\"")}

\* the position \s* leads to from position i: the first one that holds no white space
SkipWs(t, i) == Min({j \in i..(Len(t) + 1) : ~IsWs(CharAt(t, j))})

\* \.{1,2}\/[^'"]+ matches the whole of a text without quotes
IsRelative(rel) ==
  \/ StartsAt(rel, 1, Str(<< ".", "/" >>)) /\ Len(rel) > 2
  \/ StartsAt(rel, 1, Str(<< ".", ".", "/" >>)) /\ Len(rel) > 3

\* the least member of a set of positions, 0 when there is none
FirstOf(S) == IF S = {} THEN 0 ELSE Min(S)

\* the specifier between the quote at q and the quote at c, the next one: c when
\* the two quotes are the same and \.{1,2}\/[^'"]+ matches what is between them
SpecifierClosedAt(t, q, c) ==
  IF c > 0 /\ CharAt(t, c) = CharAt(t, q) /\ IsRelative(SubSeq(t, q + 1, c - 1))
    THEN c
    ELSE 0

\* (['"])(\.{1,2}\/[^'"]+)\2 matches at position q: the position of the closing
\* quote, 0 when it does not match
SpecifierEnd(t, q) ==
  IF IsQuote(CharAt(t, q))
    THEN SpecifierClosedAt(t, q, FirstOf({j \in (q + 1)..Len(t) : IsQuote(t[j])}))
    ELSE 0

\* \b before position i, where a word character stands
WordStart(t, i) == ~IsWord(CharAt(t, i - 1))

ImportWord == Str(<< "i", "m", "p", "o", "r", "t" >>)
ExportWord == Str(<< "e", "x", "p", "o", "r", "t" >>)
FromWord == Str(<< "f", "r", "o", "m" >>)

\* the position \s* leads to after the word from at position k, 0 for k = 0
AfterFrom(t, k) == IF k = 0 THEN 0 ELSE SkipWs(t, k + Len(FromWord))

\* (\bimport\s+[^'"]*?\sfrom\s*) and (\bexport\s+[^'"]*?\sfrom\s*) at position i:
\* the position of the quote that follows, 0 when the prefix does not match there
\* or no specifier follows it
FromQuote(t, i, word) ==
  IF StartsAt(t, i, word) /\ WordStart(t, i) /\ IsWs(CharAt(t, i + Len(word)))
    THEN AfterFrom(t, FirstOf({k \in (i + Len(word) + 2)..Len(t) :
                                 /\ IsWs(t[k - 1])
                                 /\ StartsAt(t, k, FromWord)
                                 /\ \A j \in (i + Len(word))..(k - 1) : ~IsQuote(t[j])
                                 /\ SpecifierEnd(t, AfterFrom(t, k)) > 0}))
    ELSE 0

\* (\bimport\s*) at position i
BareQuote(t, i) ==
  IF StartsAt(t, i, ImportWord) /\ WordStart(t, i)
    THEN SkipWs(t, i + Len(ImportWord))
    ELSE 0

\* \(\s* at position j
AfterParen(t, j) == IF CharAt(t, j) = Chr("(") THEN SkipWs(t, j + 1) ELSE 0

\* (import\s*\(\s*) at position i
DynamicQuote(t, i) ==
  IF StartsAt(t, i, ImportWord) THEN AfterParen(t, SkipWs(t, i + Len(ImportWord))) ELSE 0

\* the four regular expressions, in the order of the replace calls
Shapes == << "importFrom", "sideEffect", "exportFrom", "dynamic" >>

\* where the prefix of the regular expression of a shape, matched at position i,
\* leaves off: the position of the opening quote, 0 when it does not match
QuoteOf(t, i, shape) ==
  IF shape = "importFrom" THEN FromQuote(t, i, ImportWord)
  ELSE IF shape = "exportFrom" THEN FromQuote(t, i, ExportWord)
  ELSE IF shape = "sideEffect" THEN BareQuote(t, i)
  ELSE DynamicQuote(t, i)

NoMatch == [quote |-> 0, close |-> 0, end |-> 0]

\* (\s*;?) or (\s*\)) after the closing quote at c, e being where \s* leads to
MatchSuffix(t, shape, q, c, e) ==
  IF shape = "dynamic"
    THEN (IF CharAt(t, e) = Chr(")") THEN [quote |-> q, close |-> c, end |-> e]
          ELSE NoMatch)
    ELSE [quote |-> q, close |-> c, end |-> IF CharAt(t, e) = Chr(";") THEN e ELSE e - 1]

\* the specifier and the suffix, for the opening quote at q and the closing one at c
MatchClosed(t, shape, q, c) ==
  IF c = 0 THEN NoMatch ELSE MatchSuffix(t, shape, q, c, SkipWs(t, c + 1))

\* the same for the opening quote at q
MatchQuoted(t, shape, q) ==
  IF q = 0 THEN NoMatch ELSE MatchClosed(t, shape, q, SpecifierEnd(t, q))

\* the match of the regular expression of a shape at position i of text t: the
\* positions of the two quotes and of the last character matched
MatchOf(t, i, shape) == MatchQuoted(t, shape, QuoteOf(t, i, shape))

\* the prefix of the virtual specifiers
VirtualPrefix == Str(<< "_", "_", "m", "_", "_", "/" >>)

\* replaceStaticFrom: what is written between the quotes
VirtualSpecifier(srcPath, rel) == VirtualPrefix \o resolveRelative(srcPath, rel)

RECURSIVE ReplaceShape(_, _, _, _)
\* the text from position lo up to the end of match m, the match replaced, and
\* the rest of the text with its matches replaced
ReplaceMatch(t, lo, shape, srcPath, m) ==
  SubSeq(t, lo, m.quote)
    \o VirtualSpecifier(srcPath, SubSeq(t, m.quote + 1, m.close - 1))
    \o SubSeq(t, m.close, m.end)
    \o ReplaceShape(t, m.end + 1, shape, srcPath)

\* the same for the first match from lo on, which starts at position i, if any
ReplaceFirst(t, lo, shape, srcPath, i) ==
  IF i = 0 THEN SubSeq(t, lo, Len(t))
  ELSE ReplaceMatch(t, lo, shape, srcPath, MatchOf(t, i, shape))

\* code.replace with the regular expression of a shape, from position lo on
ReplaceShape(t, lo, shape, srcPath) ==
  ReplaceFirst(t, lo, shape, srcPath,
               FirstOf({i \in lo..Len(t) : MatchOf(t, i, shape).end > 0}))

rewriteImportsToVirtual(spec, code) ==
  ReplaceShape(ReplaceShape(ReplaceShape(ReplaceShape(code, 1, Shapes[1], spec),
                                         1, Shapes[2], spec),
                            1, Shapes[3], spec),
               1, Shapes[4], spec)

(***************************************************************************)
(* Module sources: a source is a sequence of lines, a line is an import    *)
(* statement (the text before the specifier, the quote, the specifier, the *)
(* text after it) or some other text.                                      *)
(***************************************************************************)
\* an import-from statement of module b of the same directory
ImportFrom ==
  [before |-> Str(<< "i", "m", "p", "o", "r", "t", " ", "{", " ", "f", " ", "}", " ", "f", "r", "o",
         "m", " " >>),
   quote |-> Str(<< "'" >>),
   rel |-> Str(<< ".", "/", "b" >>),
   after |-> Str(<< "'" >>),
   kind |-> "import"]

\* a side-effect import of module a of the parent directory
SideEffectImport ==
  [before |-> Str(<< "i", "m", "p", "o", "r", "t", " " >>),
   quote |-> Str(<< "'" >>),
   rel |-> Str(<< ".", ".", "/", "a" >>),
   after |-> Str(<< "'", ";" >>),
   kind |-> "import"]

\* an export-from statement, in double quotes
ExportFrom ==
  [before |-> Str(<< "e", "x", "p", "o", "r", "t", " ", "*", " ", "f", "r", "o", "m", " " >>),
   quote |-> Str(<< "\"" >>),
   rel |-> Str(<< ".", "/", "a" >>),
   after |-> Str(<< "\"" >>),
   kind |-> "import"]

\* a dynamic import
DynamicImport ==
  [before |-> Str(<< "i", "m", "p", "o", "r", "t", "(" >>),
   quote |-> Str(<< "'" >>),
   rel |-> Str(<< ".", "/", "b" >>),
   after |-> Str(<< "'", ")" >>),
   kind |-> "import"]

\* an import of a specifier that is not relative
BareImport ==
  [before |-> Str(<< "i", "m", "p", "o", "r", "t", " ", "a", " ", "f", "r", "o", "m", " " >>),
   quote |-> Str(<< "'" >>),
   rel |-> Str(<< "l", "i", "b" >>),
   after |-> Str(<< "'" >>),
   kind |-> "bare"]

\* a comment whose text looks like a side-effect import
CommentedImport ==
  [before |-> Str(<< "/", "/", " ", "i", "m", "p", "o", "r", "t", " ", "'", ".", "/", "a", "'" >>),
   quote |-> << >>,
   rel |-> << >>,
   after |-> << >>,
   kind |-> "other"]

\* a comment in which a quoted relative path ends in the word import and is followed by another quoted path
NestedComment ==
  [before |-> Str(<< "/", "/", " ", "i", "m", "p", "o", "r", "t", " ", "'", ".", "/", "i", "m", "p",
         "o", "r", "t", "'", ".", "/", "a", "'" >>),
   quote |-> << >>,
   rel |-> << >>,
   after |-> << >>,
   kind |-> "other"]

\* a statement without any import
PlainStatement ==
  [before |-> Str(<< "x", " ", "=", " ", "1", ";" >>),
   quote |-> << >>,
   rel |-> << >>,
   after |-> << >>,
   kind |-> "other"]

Lines ==
  {ImportFrom, SideEffectImport, ExportFrom, DynamicImport, BareImport, CommentedImport,
   NestedComment, PlainStatement}

\* the text of a line as it stands in the file
LineText(ln) ==
  ln.before \o ln.quote \o ln.rel \o ln.after \o Str(<< "\n" >>)

\* the text of a source
SourceText(lns) == Join([k \in 1..Len(lns) |-> LineText(lns[k])], 1, Len(lns))

RECURSIVE SeqsUpTo(_, _)
\* the sequences of at most n members of a set
SeqsUpTo(S, n) ==
  IF n = 0 THEN {<< >>}
  ELSE LET shorter == SeqsUpTo(S, n - 1)
       IN  shorter \cup {Append(q, x) : q \in {u \in shorter : Len(u) = n - 1}, x \in S}

\* the paths of the modules: two at the root and one in a directory
ModuleNames == {Str(<< "a" >>), Str(<< "b" >>), Str(<< "d", "/", "a" >>)}

InitRewrite ==
  /\ doc = HostedDocument
  /\ files = [q \in ModulePathSet |-> << >>]
  /\ store = createDiagram
  /\ exp = IdleExport
  /\ net = {}
  /\ delivered = None
  /\ gen = 0
  /\ win = WindowOf(HostedDocument)
  /\ page = "closed"
  /\ localStorage = EmptyStorage
  /\ now = 0
  /\ userChanged = FALSE
  /\ exported = createDiagram
  /\ seedThrew = FALSE
  /\ input \in [path : ModuleNames, lines : SeqsUpTo(Lines, MaxStmts)]
  /\ output = None

\* rewriteImportsToVirtual is called on the source
Rewrite ==
  /\ output = None
  /\ output' = Some(<< rewriteImportsToVirtual(input.path, SourceText(input.lines)) >>)
  /\ UNCHANGED << doc, store, page, localStorage, now, userChanged, exported, seedThrew,
                  files, exp, net, delivered, gen, win, input >>

\* rewriteImportsToVirtual is called on what it returned
RewriteAgain ==
  /\ output # None
  /\ Len(Get(output)) = 1
  /\ output' = Some(Append(Get(output), rewriteImportsToVirtual(input.path, Get(output)[1])))
  /\ UNCHANGED << doc, store, page, localStorage, now, userChanged, exported, seedThrew,
                  files, exp, net, delivered, gen, win, input >>

NextRewrite == Rewrite \/ RewriteAgain

SpecRewrite == InitRewrite /\ [][NextRewrite]_vars

(***************************************************************************)
(* Claims about the rewriter.                                              *)
(***************************************************************************)
\* a line with the specifier of its import statement replaced, if it is one with a
\* relative specifier, and as it stands otherwise
LineRewritten(srcPath, ln) ==
  IF ln.kind = "import"
    THEN ln.before \o ln.quote \o VirtualPrefix \o resolveRelative(srcPath, ln.rel)
           \o ln.after \o Str(<< "\n" >>)
    ELSE LineText(ln)

\* C17: rewriting a rewritten source returns it as it is
C17_RewriteIdempotent ==
  (output # None /\ Len(Get(output)) = 2) => Get(output)[2] = Get(output)[1]

\* C18: the rewritten source is the source with the specifier literals of its
\* import statements replaced and every other character, comments and the
\* specifiers that are not relative included, as it was
C18_OnlySpecifiersChange ==
  output # None =>
     Get(output)[1] = Join([k \in 1..Len(input.lines) |->
                              LineRewritten(input.path, input.lines[k])],
                           1, Len(input.lines))

(***************************************************************************)
(* buildImportMapFromSources and the steps of the export that follow it.   *)
(***************************************************************************)
\* the character of a base64 digit, = for the padding
Base64Char(d) ==
  IF d < 26 THEN Chr("A") + d
  ELSE IF d < 52 THEN Chr("a") + (d - 26)
  ELSE IF d < 62 THEN Chr("0") + (d - 52)
  ELSE IF d = 62 THEN Chr("+")
  ELSE IF d = 63 THEN Chr("/")
  ELSE Chr("=")

\* a base64 text as the string btoa returns
Base64Text(digits) == [i \in 1..Len(digits) |-> Base64Char(digits[i])]

DataUrlPrefix ==
  Str(<< "d", "a", "t", "a", ":", "t", "e", "x", "t", "/", "j", "a", "v", "a", "s", "c",
         "r", "i", "p", "t", ";", "b", "a", "s", "e", "6", "4", "," >>)

toDataUrlJavascript(code) == DataUrlPrefix \o Base64Text(encodeBase64(code))

\* the key of a module in the import map
VirtualOf(path) == VirtualPrefix \o path

\* the import map and the rewritten sources, both keyed by virtual specifier
buildImportMapFromSources(rawSources) ==
  LET keys == {VirtualOf(q) : q \in DOMAIN rawSources}
      pathOf(v) == CHOOSE q \in DOMAIN rawSources : VirtualOf(q) = v
  IN  [importMap |->
         [imports |-> [v \in keys |->
            toDataUrlJavascript(rewriteImportsToVirtual(pathOf(v), rawSources[pathOf(v)]))]],
       rewrittenSources |->
         [v \in keys |-> rewriteImportsToVirtual(pathOf(v), rawSources[pathOf(v)])]]

\* the modules of a bundle
BundleNames == {Str(<< "a" >>), Str(<< "b" >>)}

\* the lines their sources are made of
BundleLines == {ImportFrom, BareImport, PlainStatement}

\* the module lists and the sources the export has collected
BundleInputs ==
  UNION {[names -> SeqsUpTo(BundleLines, MaxStmts)] : names \in (SUBSET BundleNames) \ {{}}}

InitBundle ==
  /\ doc = HostedDocument
  /\ files = [q \in ModulePathSet |-> << >>]
  /\ store = createDiagram
  /\ exp = IdleExport
  /\ net = {}
  /\ delivered = None
  /\ gen = 0
  /\ win = WindowOf(HostedDocument)
  /\ page = "running"
  /\ localStorage = EmptyStorage
  /\ now = 0
  /\ userChanged = FALSE
  /\ exported = createDiagram
  /\ seedThrew = FALSE
  /\ input \in BundleInputs
  /\ output = None

\* step 4 of exportStandaloneHtml
BuildImportMap ==
  /\ output = None
  /\ output' = Some([stage |-> "built",
                     built |-> buildImportMapFromSources(
                                 [q \in DOMAIN input |-> SourceText(input[q])])])
  /\ UNCHANGED << doc, store, page, localStorage, now, userChanged, exported, seedThrew,
                  files, exp, net, delivered, gen, win, input >>

\* steps 5 to 7: the document is assembled around the import map and saved
DeliverBundle ==
  /\ output # None
  /\ Get(output).stage = "built"
  /\ output' = Some([Get(output) EXCEPT !.stage = "delivered"])
  /\ UNCHANGED << doc, store, page, localStorage, now, userChanged, exported, seedThrew,
                  files, exp, net, delivered, gen, win, input >>

NextBundle == BuildImportMap \/ DeliverBundle

SpecBundle == InitBundle /\ [][NextBundle]_vars

(***************************************************************************)
(* Claims about the import map.                                            *)
(***************************************************************************)
\* the string literals of a text: what stands between its first and second quote,
\* its third and fourth, and so on
Literals(t) ==
  LET quotes == {i \in 1..Len(t) : IsQuote(t[i])}
      opening == {i \in quotes : Cardinality({j \in quotes : j < i}) % 2 = 0}
  IN  {SubSeq(t, i + 1, FirstOf({j \in quotes : j > i}) - 1) :
         i \in {k \in opening : \E j \in quotes : j > k}}

\* the virtual specifiers a rewritten source imports
ImportedVirtuals(t) == {l \in Literals(t) : StartsAt(l, 1, VirtualPrefix)}

\* C12: in a delivered artifact every virtual specifier a rewritten source imports
\* is a key of the import map; an export for which this fails delivers nothing
C12_Closure ==
  (output # None /\ Get(output).stage = "delivered") =>
     \A v \in DOMAIN Get(output).built.rewrittenSources :
        ImportedVirtuals(Get(output).built.rewrittenSources[v])
          \subseteq DOMAIN Get(output).built.importMap.imports

\* C13: for the module list of module a alone, whose source imports ./b, the
\* resolver yields b, the rewritten source has the virtual specifier of b in place
\* of ./b, and the import map has a key for a and a key for b
C13_ScenarioBothKeys ==
  (output # None /\ DOMAIN input = {Str(<< "a" >>)}
     /\ input[Str(<< "a" >>)] = << ImportFrom >>) =>
     /\ resolveRelative(Str(<< "a" >>), ImportFrom.rel) = Str(<< "b" >>)
     /\ Get(output).built.rewrittenSources[VirtualOf(Str(<< "a" >>))]
          = ImportFrom.before \o ImportFrom.quote \o VirtualOf(Str(<< "b" >>))
              \o ImportFrom.after \o Str(<< "\n" >>)
     /\ {VirtualOf(Str(<< "a" >>)), VirtualOf(Str(<< "b" >>))}
          \subseteq DOMAIN Get(output).built.importMap.imports

\* C19: the export of a module list in which a source imports a specifier that is
\* not relative fails: nothing is delivered
C19_BareSpecifierFails ==
  (output # None /\ \E q \in DOMAIN input : \E k \in 1..Len(input[q]) :
                       input[q][k].kind = "bare")
     => Get(output).stage # "delivered"

(***************************************************************************)
(* The manifest as text: JSON.stringify of the payload, the script element *)
(* it is written into, and JSON.parse of the element's text.               *)
(***************************************************************************)
MaxAtoms == 3

\* the module paths as texts
PathText(q) ==
  IF q = "src/core/store.js"
    THEN Str(<< "s", "r", "c", "/", "c", "o", "r", "e", "/", "s", "t", "o", "r", "e", ".",
                "j", "s" >>)
    ELSE Str(<< "s", "r", "c", "/", "c", "o", "r", "e", "/", "e", "v", "e", "n", "t", "B",
                "u", "s", ".", "j", "s" >>)

\* "key":
JsonKey(name) == JsonString(name) \o Str(<< ":" >>)

\* the k-th of n members or items, with the comma that follows all but the last
WithComma(item, k, n) == IF k < n THEN item \o Str(<< "," >>) ELSE item

\* JSON.stringify(selfModulesPayload)
SelfModulesJson(m) ==
  LET n == Len(m.list)
  IN  Concat(<< Str(<< "{" >>),
                JsonKey(Str(<< "f", "i", "l", "e", "s", "B", "a", "s", "e", "6", "4" >>)),
                Str(<< "{" >>),
                Join([k \in 1..n |->
                        WithComma(JsonKey(PathText(m.list[k]))
                                    \o JsonString(Base64Text(m.filesBase64[m.list[k]])),
                                  k, n)], 1, n),
                Str(<< "}", "," >>),
                JsonKey(Str(<< "l", "i", "s", "t" >>)),
                Str(<< "[" >>),
                Join([k \in 1..n |-> WithComma(JsonString(PathText(m.list[k])), k, n)], 1, n),
                Str(<< "]", "," >>),
                JsonKey(Str(<< "h", "t", "m", "l", "2", "c", "a", "n", "v", "a", "s", "B",
                               "a", "s", "e", "6", "4" >>)),
                JsonString(Base64Text(m.html2canvasBase64)),
                Str(<< "," >>),
                JsonKey(Str(<< "c", "s", "s", "B", "a", "s", "e", "6", "4" >>)),
                JsonString(Base64Text(m.cssBase64)),
                Str(<< "}" >>) >>)

\* the digit of a base64 character, as atob reads it
Base64Digit(c) ==
  IF c >= Chr("A") /\ c <= Chr("Z") THEN c - Chr("A")
  ELSE IF c >= Chr("a") /\ c <= Chr("z") THEN c - Chr("a") + 26
  ELSE IF c >= Chr("0") /\ c <= Chr("9") THEN c - Chr("0") + 52
  ELSE IF c = Chr("+") THEN 62
  ELSE IF c = Chr("/") THEN 63
  ELSE 64

Base64Digits(text) == [i \in 1..Len(text) |-> Base64Digit(text[i])]

\* the position of the k-th quote of a text
QuoteAt(t, k) ==
  CHOOSE i \in 1..Len(t) :
    /\ t[i] = Chr("\"")
    /\ Cardinality({j \in 1..(i - 1) : t[j] = Chr("\"")}) = k - 1

\* the characters lo..hi of the inside of a string literal, as JSON.parse reads
\* them
Unquoted(t, lo, hi) == Join([i \in lo..hi |-> UnquotedAt(t, lo, i)], lo, hi)

\* the k-th string literal of a JSON text whose strings hold no quote
StringAt(t, k) == Unquoted(t, QuoteAt(t, 2 * k - 1) + 1, QuoteAt(t, 2 * k) - 1)

\* JSON.parse of the text of the manifest element, for a text that
\* JSON.stringify wrote from a payload: the member filesBase64 ends at the first
\* closing brace, and the strings before it are its name and then, pair by pair,
\* a path and its base64 text; the last two values are the fourth and the second
\* string from the end
ParseSelfModules(t) ==
  LET brace == Min({i \in 1..Len(t) : t[i] = Chr("}")})
      n == (Cardinality({i \in 1..brace : t[i] = Chr("\"")}) - 2) \div 4
      strings == Cardinality({i \in 1..Len(t) : t[i] = Chr("\"")}) \div 2
  IN  [filesBase64 |-> [q \in {StringAt(t, 2 * k) : k \in 1..n} |->
                          StringAt(t, 1 + 2 * (CHOOSE k \in 1..n : StringAt(t, 2 * k) = q))],
       list |-> [k \in 1..n |-> StringAt(t, 2 * n + 2 + k)],
       html2canvasBase64 |-> StringAt(t, strings - 2),
       cssBase64 |-> StringAt(t, strings)]

\* the texts the codec is examined on are strings of these: a quote, characters of
\* two, three and four UTF-8 bytes (the last a surrogate pair) and a script end
\* tag in upper case
Atoms ==
  { << Chr("\"") >>, << 233 >>, << 8364 >>, << 55357, 56832 >>,
    Str(<< "<", "/", "S", "C", "R", "I", "P", "T", ">" >>) }

\* the concatenations of at most MaxAtoms atoms
CodecTexts ==
  {Join(q, 1, Len(q)) : q \in SeqsUpTo(Atoms, MaxAtoms)}

InitCodec ==
  /\ doc = HostedDocument
  /\ files = [q \in ModulePathSet |-> << >>]
  /\ store = createDiagram
  /\ exp = IdleExport
  /\ net = {}
  /\ delivered = None
  /\ gen = 0
  /\ win = WindowOf(HostedDocument)
  /\ page = "running"
  /\ localStorage = EmptyStorage
  /\ now = 0
  /\ userChanged = FALSE
  /\ exported = createDiagram
  /\ seedThrew = FALSE
  /\ input \in [text : CodecTexts]
  /\ output = None

\* the module sources of the examination: the text and the empty text
CodecSources(text) ==
  [q \in ModulePathSet |-> IF q = "src/core/store.js" THEN text ELSE << >>]

\* buildStandaloneHtml writes the manifest element for sources, stylesheet and
\* library that all hold the text
EmbedManifest ==
  /\ output = None
  /\ output' =
       Some([stage |-> "embedded",
             element |-> escapeForScriptTag(SelfModulesJson(Get(
                buildStandaloneHtml(UntitledTitle, input.text,
                                    exportDiagram(createDiagram, FALSE),
                                    input.text, CodecSources(input.text)).manifest))),
             read |-> None])
  /\ UNCHANGED << doc, store, page, localStorage, now, userChanged, exported, seedThrew,
                  files, exp, net, delivered, gen, win, input >>

\* readEmbeddedSelfModules parses the element's text in the opened artifact
ReadManifest ==
  /\ output # None
  /\ Get(output).stage = "embedded"
  /\ output' = Some([Get(output) EXCEPT
                       !.stage = "read",
                       !.read = Some(ParseSelfModules(ScriptTextContent(Get(output).element)))])
  /\ UNCHANGED << doc, store, page, localStorage, now, userChanged, exported, seedThrew,
                  files, exp, net, delivered, gen, win, input >>

NextCodec == EmbedManifest \/ ReadManifest

SpecCodec == InitCodec /\ [][NextCodec]_vars

(***************************************************************************)
(* Claims about the codec.                                                 *)
(***************************************************************************)
\* C20: decodeBase64(encodeBase64(s)) is s, and the entries read back from the
\* manifest element of the assembled document decode to the texts that were
\* encoded: the module sources, the stylesheet and the library
C20_CodecRoundTrip ==
  /\ decodeBase64(encodeBase64(input.text)) = input.text
  /\ (output # None /\ Get(output).stage = "read") =>
       LET m == Get(Get(output).read)
       IN  /\ DOMAIN m.filesBase64 = {PathText(q) : q \in ModulePathSet}
           /\ \A q \in ModulePathSet :
                decodeBase64(Base64Digits(m.filesBase64[PathText(q)]))
                  = CodecSources(input.text)[q]
           /\ decodeBase64(Base64Digits(m.cssBase64)) = input.text
           /\ decodeBase64(Base64Digits(m.html2canvasBase64)) = input.text

C20_Witness ==
  /\ output # None
  /\ Get(output).stage = "read"
  /\ \E i \in 1..Len(input.text) : input.text[i] = 56832
  /\ \E i \in 1..Len(input.text) : input.text[i] = Chr("\"")
  /\ \E i \in 1..Len(input.text) : MatchesScriptClose(input.text, i)

(***************************************************************************)
(* Claims about the assembled document.                                    *)
(***************************************************************************)
\* text t has an entity at position i
EntityAt(t, i) ==
  \/ StartsAt(t, i, Str(<< "&", "a", "m", "p", ";" >>))
  \/ StartsAt(t, i, Str(<< "&", "l", "t", ";" >>))
  \/ StartsAt(t, i, Str(<< "&", "g", "t", ";" >>))
  \/ StartsAt(t, i, Str(<< "&", "q", "u", "o", "t", ";" >>))

\* C21: the title text of a saved document holds no raw less-than, greater-than or
\* quote character, and an ampersand only as the start of an entity
C21_TitleEscaped ==
  delivered # None =>
    \A i \in 1..Len(Get(Get(delivered).title)) :
      /\ Get(Get(delivered).title)[i] \notin {Chr("<"), Chr(">"), Chr("\"")}
      /\ Get(Get(delivered).title)[i] = Chr("&") => EntityAt(Get(Get(delivered).title), i)

InitSnapshot == Init /\ files = [q \in ModulePathSet |-> << 97, 233, 8364 >>]

\* uploadDiagram or the New button: store.loadDiagram replaces the diagram; the
\* event is a task of its own, so it runs while no export runs or the export
\* waits for a fetch
UploadDiagram(d) ==
  /\ exp.pc \in {"idle", "done", "rejected", "cssFetch", "modFetch", "libFetch"}
  /\ EditDiagram(d)

\* a cold export whose fetches succeed, and the user loading another diagram at
\* any time, also while the export waits for a fetch
NextSnapshot ==
  \/ ExportBegin
  \/ CssFetchOk
  \/ CollectModules
  \/ \E q \in ModulePathSet : ModuleFetchOk(q)
  \/ InlineLibrary
  \/ LibFetchOk
  \/ Deliver
  \/ \E d \in Diagrams : UploadDiagram(d)

SpecSnapshot == InitSnapshot /\ [][NextSnapshot]_vars

\* document d shows diagram x both in its title element and in its snapshot
SnapshotOf(d, x) ==
  /\ d.title = Some(TitleElementText(sanitizeTitleForHtml(TitleOfStore(x))))
  /\ d.initialDiagram = Some(ScriptTextContent(escapeForScriptTag(exportDiagram(x, FALSE))))

\* C26: the title element and the snapshot of a saved document come from one
\* diagram state
C26_ConsistentSnapshot ==
  delivered # None =>
    \E x \in [title : Titles \cup {[i \in DOMAIN t |-> Lower(t[i])] : t \in Titles},
              nodes : 0..MaxNodes] :
      SnapshotOf(Get(delivered), x)

(***************************************************************************)
(* downloadBlob.  The page is its object URLs that are not revoked and the *)
(* anchor elements attached to its body.                                   *)
(***************************************************************************)
MaxDownloads == 4

DefaultFilename ==
  Str(<< "d", "i", "a", "g", "r", "a", "m", ".", "h", "t", "m", "l" >>)

\* the file names downloadBlob is called with: none, or a.html
Filenames == { << >>, Str(<< "a", ".", "h", "t", "m", "l" >>) }

\* a page on which downloadBlob has not run
CleanPage == [created |-> 0, urls |-> {}, body |-> {}]

\* the statements of downloadBlob before a.click()
BeforeClick(p, filename) ==
  LET url == p.created + 1
      a   == [href |-> url, download |-> IF filename = << >> THEN DefaultFilename ELSE filename]
  IN  [created |-> url, urls |-> p.urls \cup {url}, body |-> p.body \cup {a}]

\* the statements of downloadBlob after a.click(), for the URL created last
AfterClick(p) ==
  [p EXCEPT !.body = {a \in @ : a.href # p.created}, !.urls = @ \ {p.created}]

\* downloadBlob(blob, filename); an exception of a.click() leaves the function
downloadBlob(p, filename, clickThrows) ==
  IF clickThrows THEN BeforeClick(p, filename) ELSE AfterClick(BeforeClick(p, filename))

InitDownload ==
  /\ doc = HostedDocument
  /\ files = [q \in ModulePathSet |-> << >>]
  /\ store = createDiagram
  /\ exp = IdleExport
  /\ net = {}
  /\ delivered = None
  /\ gen = 0
  /\ win = WindowOf(HostedDocument)
  /\ page = "running"
  /\ localStorage = EmptyStorage
  /\ now = 0
  /\ userChanged = FALSE
  /\ exported = createDiagram
  /\ seedThrew = FALSE
  /\ input = << >>
  /\ output = Some(CleanPage)

\* step 7 of one more export
DownloadBlob(filename, clickThrows) ==
  /\ Get(output).created < MaxDownloads
  /\ output' = Some(downloadBlob(Get(output), filename, clickThrows))
  /\ UNCHANGED << doc, store, page, localStorage, now, userChanged, exported, seedThrew,
                  files, exp, net, delivered, gen, win, input >>

NextDownload == \E filename \in Filenames, clickThrows \in BOOLEAN : DownloadBlob(filename, clickThrows)

SpecDownload == InitDownload /\ [][NextDownload]_vars

\* C22: between deliveries no object URL is unreleased and no anchor is attached,
\* whether the clicks succeeded or threw
C22_NoLeak == Get(output).urls = {} /\ Get(output).body = {}

(***************************************************************************)
(* Strategy selection on an arbitrary document.  The manifest element is   *)
(* given by what JSON.parse makes of its text: an exception, null, or an   *)
(* object whose members filesBase64 and list are absent, null, a number, a *)
(* string, a map of paths to base64 texts, or an array of paths.           *)
(***************************************************************************)
MaxList == 2

\* the values the member filesBase64 is examined with
FilesValues ==
  {[kind |-> k, map |-> << >>] : k \in {"absent", "null", "number"}} \cup
  {[kind |-> "map", map |-> [q \in S |-> encodeBase64(<< 97, 233 >>)]] :
     S \in SUBSET ModulePathSet}

\* the values the member list is examined with
ListValues ==
  {[kind |-> k, items |-> << >>] : k \in {"absent", "null", "string"}} \cup
  {[kind |-> "array", items |-> l] : l \in SeqsUpTo(ModulePathSet, MaxList)}

\* the documents: no element, an element with empty text, with text that is not
\* JSON, with the text null, or with an object
ManifestElements ==
  {[element |-> e, filesBase64 |-> [kind |-> "absent", map |-> << >>],
    list |-> [kind |-> "absent", items |-> << >>]] :
     e \in {"missing", "empty", "invalid", "null"}} \cup
  {[element |-> "object", filesBase64 |-> f, list |-> l] :
     f \in FilesValues, l \in ListValues}

\* a member's value counts as true: numbers are examined with 1 and strings with a
\* non-empty one
Truthy(v) == v.kind \notin {"absent", "null"}

\* readEmbeddedSelfModules on element el: the parsed object, or None for null; the
\* exception of JSON.parse is caught, and empty text is parsed as an empty object
ReadElement(el) ==
  IF el.element \in {"missing", "invalid", "null", "empty"} THEN None
  ELSE IF Truthy(el.filesBase64) /\ Truthy(el.list) /\ el.list.kind = "array"
    THEN Some(el)
  ELSE None

\* embedded.filesBase64 as the warm loop indexes it: indexing a number gives
\* undefined for every path
IndexedFiles(embedded) ==
  IF embedded.filesBase64.kind = "map" THEN embedded.filesBase64.map
  ELSE [q \in {} |-> << >>]

\* collectModuleRawSources up to its fetches, for the result of readEmbeddedSelfModules
CollectFrom(embedded) ==
  IF embedded # None
    THEN [strategy |-> "warm",
          rawSources |-> DecodeManifest([filesBase64 |-> IndexedFiles(Get(embedded)),
                                         list |-> Get(embedded).list.items]),
          list |-> Get(embedded).list.items]
    ELSE [strategy |-> "cold", rawSources |-> [q \in {} |-> << >>], list |-> << >>]

InitStrategy ==
  /\ doc = HostedDocument
  /\ files = [q \in ModulePathSet |-> << >>]
  /\ store = createDiagram
  /\ exp = IdleExport
  /\ net = {}
  /\ delivered = None
  /\ gen = 0
  /\ win = WindowOf(HostedDocument)
  /\ page = "running"
  /\ localStorage = EmptyStorage
  /\ now = 0
  /\ userChanged = FALSE
  /\ exported = createDiagram
  /\ seedThrew = FALSE
  /\ input \in ManifestElements
  /\ output = None

\* readEmbeddedSelfModules returns
ReadEmbedded ==
  /\ output = None
  /\ output' = Some([stage |-> "read", embedded |-> ReadElement(input),
                     result |-> CollectFrom(None)])
  /\ UNCHANGED << doc, store, page, localStorage, now, userChanged, exported, seedThrew,
                  files, exp, net, delivered, gen, win, input >>

\* collectModuleRawSources returns, or starts its fetches
Collect ==
  /\ output # None
  /\ Get(output).stage = "read"
  /\ output' = Some([Get(output) EXCEPT !.stage = "collected",
                                        !.result = CollectFrom(Get(output).embedded)])
  /\ UNCHANGED << doc, store, page, localStorage, now, userChanged, exported, seedThrew,
                  files, exp, net, delivered, gen, win, input >>

NextStrategy == ReadEmbedded \/ Collect

SpecStrategy == InitStrategy /\ [][NextStrategy]_vars

\* C23: when the warm acquisition returns, its sources are those of the paths of
\* its list
C23_AcquisitionComplete ==
  (output # None /\ Get(output).stage = "collected" /\ Get(output).result.strategy = "warm") =>
    DOMAIN Get(output).result.rawSources
      = {Get(output).result.list[i] : i \in DOMAIN Get(output).result.list}

\* C28: the manifest is used exactly if the element holds an object with a files
\* map and a list array, and the cold strategy is taken otherwise
C28_StrategySelection ==
  output # None =>
    /\ Get(output).embedded # None <=>
         (input.element = "object" /\ input.filesBase64.kind = "map"
            /\ input.list.kind = "array")
    /\ Get(output).stage = "collected" =>
         (Get(output).result.strategy = "cold" <=> Get(output).embedded = None)

(***************************************************************************)
(* Claims about the start of the application in an artifact.               *)
(***************************************************************************)
\* C25: when the application starts after the bootstrap, the store holds the
\* diagram that localStorage holds: the embedded one on the first open, the
\* persisted one on later opens, whatever the user does
C25_LoadedAutomatically ==
  [][(page = "booted" /\ page' = "running" /\ localStorage.diagram # None
        /\ JsonParse(Get(localStorage.diagram)) # None) =>
       store' = importDiagram(Get(JsonParse(Get(localStorage.diagram))))]_vars

(***************************************************************************)
(* The cold acquisition with objects as JavaScript keeps them: the entries *)
(* of rawSources and of imports stand in the order of their insertion.     *)
(***************************************************************************)
\* a before b in the order of UTF-16 code units, the order of Array.prototype.sort
TextLess(a, b) ==
  \E i \in 1..(Len(a) + 1) :
    /\ i <= Len(b)
    /\ \A k \in 1..(i - 1) : a[k] = b[k]
    /\ (i > Len(a) \/ a[i] < b[i])

\* Object.keys(o): the keys in insertion order
ObjectKeys(o) == [k \in DOMAIN o |-> o[k].key]

\* the value of key x in object o
ValueOf(o, x) == (CHOOSE e \in {o[k] : k \in DOMAIN o} : e.key = x).value

\* mutant: the keys are left in insertion order
KeysUnsorted(ks) == ks

\* ks.sort() for distinct keys
SortKeys(ks) ==
  [k \in DOMAIN ks |->
     CHOOSE x \in {ks[i] : i \in DOMAIN ks} :
       Cardinality({y \in {ks[i] : i \in DOMAIN ks} : TextLess(y, x)}) = k - 1]

\* buildImportMapFromSources: the entries of imports, in the order of Object.entries
ImportEntries(rawSources) ==
  [k \in DOMAIN rawSources |->
     [key |-> VirtualOf(rawSources[k].key),
      value |-> toDataUrlJavascript(
                  rewriteImportsToVirtual(rawSources[k].key, rawSources[k].value))]]

\* buildStandaloneHtml: list and the entries of filesBase64
ManifestEntries(embeddedRawModules) ==
  LET list == SortKeys(ObjectKeys(embeddedRawModules))
  IN  [list |-> list,
       filesBase64 |-> [k \in DOMAIN list |->
                          [key |-> list[k],
                           value |-> encodeBase64(ValueOf(embeddedRawModules, list[k]))]]]

\* the module texts the server holds: every module is one statement
FetchedTexts ==
  [ModuleNames -> {SourceText(<< ImportFrom >>), SourceText(<< PlainStatement >>)}]

InitOrder ==
  /\ doc = HostedDocument
  /\ files = [q \in ModulePathSet |-> << >>]
  /\ store = createDiagram
  /\ exp = IdleExport
  /\ net = {}
  /\ delivered = None
  /\ gen = 0
  /\ win = WindowOf(HostedDocument)
  /\ page = "running"
  /\ localStorage = EmptyStorage
  /\ now = 0
  /\ userChanged = FALSE
  /\ exported = createDiagram
  /\ seedThrew = FALSE
  /\ input \in FetchedTexts
  /\ output = None

\* collectModuleRawSources starts a fetch for every path
StartFetches ==
  /\ output = None
  /\ output' = Some([stage |-> "fetching", pending |-> ModuleNames, rawSources |-> << >>,
                     imports |-> << >>, manifest |-> ManifestEntries(<< >>)])
  /\ UNCHANGED << doc, store, page, localStorage, now, userChanged, exported, seedThrew,
                  files, exp, net, delivered, gen, win, input >>

\* the fetch of path q completes: rawSources[p] = await fetchText('./' + p)
FetchCompletes(q) ==
  /\ output # None
  /\ Get(output).stage = "fetching"
  /\ q \in Get(output).pending
  /\ output' = Some([Get(output) EXCEPT
                       !.pending = @ \ {q},
                       !.rawSources = Append(@, [key |-> q, value |-> input[q]])])
  /\ UNCHANGED << doc, store, page, localStorage, now, userChanged, exported, seedThrew,
                  files, exp, net, delivered, gen, win, input >>

\* Promise.all has resolved: steps 4 and 6 build the import map and the manifest
BuildFromSources ==
  /\ output # None
  /\ Get(output).stage = "fetching"
  /\ Get(output).pending = {}
  /\ output' = Some([Get(output) EXCEPT
                       !.stage = "built",
                       !.imports = ImportEntries(Get(output).rawSources),
                       !.manifest = ManifestEntries(Get(output).rawSources)])
  /\ UNCHANGED << doc, store, page, localStorage, now, userChanged, exported, seedThrew,
                  files, exp, net, delivered, gen, win, input >>

NextOrder ==
  \/ StartFetches
  \/ \E q \in ModuleNames : FetchCompletes(q)
  \/ BuildFromSources

SpecOrder == InitOrder /\ [][NextOrder]_vars

\* the key-value pairs of an object
PairsOf(o) == {<< o[k].key, o[k].value >> : k \in DOMAIN o}

\* C27: whatever the order in which the fetches completed, the import map has the
\* pairs that the fetched texts determine, one per module, and the manifest has
\* their base64 texts and the paths in sorted order
C27_OrderIndependent ==
  (output # None /\ Get(output).stage = "built") =>
    /\ PairsOf(Get(output).imports)
         = {<< VirtualOf(q),
               buildImportMapFromSources(input).importMap.imports[VirtualOf(q)] >> :
              q \in ModuleNames}
    /\ Len(Get(output).imports) = Cardinality(ModuleNames)
    /\ Get(output).manifest.list = SortKeys(ObjectKeys(Get(output).manifest.filesBase64))
    /\ \A k \in 1..(Len(Get(output).manifest.list) - 1) :
         TextLess(Get(output).manifest.list[k], Get(output).manifest.list[k + 1])
    /\ PairsOf(Get(output).manifest.filesBase64)
         = {<< q, encodeBase64(input[q]) >> : q \in ModuleNames}

\* the fetches completed in an order that is neither the sorted one nor that of
\* the list
C27_Witness ==
  /\ output # None
  /\ Get(output).stage = "built"
  /\ ObjectKeys(Get(output).rawSources) = << Str(<< "d", "/", "a" >>), Str(<< "a" >>), Str(<< "b" >>) >>
  /\ input[Str(<< "a" >>)] # input[Str(<< "b" >>)]

(***************************************************************************)
(* The store with its selection.  Here the variable store holds the whole  *)
(* state of the Store object: the nodes with their variables, the edges    *)
(* between ports, and the selection.                                       *)
(***************************************************************************)
NodeIds == {"n1", "n2"}
VariableIds == {"v1"}
EdgeIds == {"e1", "e2"}

\* a port of a node
Ports == [nodeId : NodeIds, portId : VariableIds]

NoSelection == [type |-> "null", ids |-> {}]

\* the state the Store is constructed with
NewStoreState == [nodes |-> [n \in {} |-> {}], edges |-> {}, selection |-> NoSelection]

\* the diagrams loadDiagram is called with: the new diagram, and one with both
\* nodes and an edge between them
LoadableDiagrams ==
  { [nodes |-> [n \in {} |-> {}], edges |-> {}],
    [nodes |-> [n \in NodeIds |-> VariableIds],
     edges |-> {[id |-> "e1", from |-> [nodeId |-> "n1", portId |-> "v1"],
                 to |-> [nodeId |-> "n2", portId |-> "v1"]]}] }

\* the ids of the edges of state s
EdgeIdsOf(s) == {e.id : e \in s.edges}

\* state s has port p
HasPort(s, p) == p.nodeId \in DOMAIN s.nodes /\ p.portId \in s.nodes[p.nodeId]

InitStore ==
  /\ doc = HostedDocument
  /\ files = [q \in ModulePathSet |-> << >>]
  /\ store = NewStoreState
  /\ exp = IdleExport
  /\ net = {}
  /\ delivered = None
  /\ gen = 0
  /\ win = WindowOf(HostedDocument)
  /\ page = "running"
  /\ localStorage = EmptyStorage
  /\ now = 0
  /\ userChanged = FALSE
  /\ exported = createDiagram
  /\ seedThrew = FALSE
  /\ NoCall

\* Store.addNode with a node whose id is new; it comes with its variables
addNode(n) ==
  /\ n \notin DOMAIN store.nodes
  /\ store' = [store EXCEPT !.nodes = [x \in DOMAIN @ \cup {n} |->
                                         IF x = n THEN VariableIds ELSE @[x]]]
  /\ UNCHANGED << doc, exportVars, lifeVars >>

\* Store.deleteNode: the node and its edges go; the selection is cleared if it
\* holds the node's id
deleteNode(n) ==
  /\ n \in DOMAIN store.nodes
  /\ store' = [store EXCEPT
                 !.nodes = [x \in DOMAIN @ \ {n} |-> @[x]],
                 !.edges = {e \in @ : e.from.nodeId # n /\ e.to.nodeId # n},
                 !.selection = IF n \in @.ids THEN NoSelection ELSE @]
  /\ UNCHANGED << doc, exportVars, lifeVars >>

\* Store.deleteVariable: the variable and its edges go; the selection is kept
deleteVariable(n, v) ==
  /\ n \in DOMAIN store.nodes
  /\ v \in store.nodes[n]
  /\ store' = [store EXCEPT
                 !.nodes[n] = @ \ {v},
                 !.edges = {e \in @ : e.from # [nodeId |-> n, portId |-> v]
                                      /\ e.to # [nodeId |-> n, portId |-> v]}]
  /\ UNCHANGED << doc, exportVars, lifeVars >>

\* Store.addEdge with an edge whose id is new, between two ports that exist
addEdge(id, from, to) ==
  /\ id \notin EdgeIdsOf(store)
  /\ HasPort(store, from)
  /\ HasPort(store, to)
  /\ from.nodeId # to.nodeId
  /\ store' = [store EXCEPT !.edges = @ \cup {[id |-> id, from |-> from, to |-> to]}]
  /\ UNCHANGED << doc, exportVars, lifeVars >>

\* Store.deleteEdge: the selection is cleared if it holds the edge's id
deleteEdge(id) ==
  /\ id \in EdgeIdsOf(store)
  /\ store' = [store EXCEPT
                 !.edges = {e \in @ : e.id # id},
                 !.selection = IF id \in @.ids THEN NoSelection ELSE @]
  /\ UNCHANGED << doc, exportVars, lifeVars >>

\* Store.setSelection, called with ids of nodes, or of edges, that exist
setSelection(type, ids) ==
  /\ ids # {}
  /\ ids \subseteq (IF type = "node" THEN DOMAIN store.nodes ELSE EdgeIdsOf(store))
  /\ store' = [store EXCEPT !.selection = [type |-> type, ids |-> ids]]
  /\ UNCHANGED << doc, exportVars, lifeVars >>

clearSelection ==
  /\ store.selection # NoSelection
  /\ store' = [store EXCEPT !.selection = NoSelection]
  /\ UNCHANGED << doc, exportVars, lifeVars >>

\* Store.loadDiagram: the diagram is replaced and the selection cleared
loadDiagram(d) ==
  /\ store' = [nodes |-> d.nodes, edges |-> d.edges, selection |-> NoSelection]
  /\ UNCHANGED << doc, exportVars, lifeVars >>

NextStore ==
  \/ \E n \in NodeIds : addNode(n)
  \/ \E n \in NodeIds : deleteNode(n)
  \/ \E n \in NodeIds, v \in VariableIds : deleteVariable(n, v)
  \/ \E id \in EdgeIds, from \in Ports, to \in Ports : addEdge(id, from, to)
  \/ \E id \in EdgeIds : deleteEdge(id)
  \/ \E type \in {"node", "edge"}, ids \in SUBSET (NodeIds \cup EdgeIds) : setSelection(type, ids)
  \/ clearSelection
  \/ \E d \in LoadableDiagrams : loadDiagram(d)

SpecStore == InitStore /\ [][NextStore]_vars

\* C29: every selected id is the id of a node or of an edge of the diagram
C29_SelectionValid ==
  store.selection.ids \subseteq (DOMAIN store.nodes \cup EdgeIdsOf(store))

(***************************************************************************)
(* CommandStack.  A command is known by its number; whether its execute or *)
(* undo method throws is decided anew at every call.                       *)
(***************************************************************************)
MaxCommands == 3

maxStackSize == 100

\* the CommandStack as constructed; issued counts the commands made so far and
\* last is the last call and how it ended
NewCommandStack ==
  [undoStack |-> << >>, redoStack |-> << >>, issued |-> 0,
   last |-> [op |-> "none", ended |-> "returned"]]

\* a stack without its top
Pop(stack) == SubSeq(stack, 1, Len(stack) - 1)

\* undoStack after the push of execute: the oldest entry is dropped beyond maxStackSize
Limited(stack) == IF Len(stack) > maxStackSize THEN Tail(stack) ELSE stack

\* CommandStack.execute(command)
execute(cs, command, throws) ==
  IF throws
    THEN [cs EXCEPT !.last = [op |-> "execute", ended |-> "threw"]]
    ELSE [cs EXCEPT !.undoStack = Limited(Append(@, command)), !.redoStack = << >>,
                    !.last = [op |-> "execute", ended |-> "returned"]]

\* mutant: the catch block does not put the command back
undoDropsCommand(cs, throws) ==
  IF cs.undoStack = << >> THEN [cs EXCEPT !.last = [op |-> "undo", ended |-> "false"]]
  ELSE IF throws
    THEN [cs EXCEPT !.undoStack = Pop(@), !.last = [op |-> "undo", ended |-> "threw"]]
  ELSE [cs EXCEPT !.undoStack = Pop(@),
                  !.redoStack = Append(@, cs.undoStack[Len(cs.undoStack)]),
                  !.last = [op |-> "undo", ended |-> "returned"]]

\* CommandStack.undo(): the command is popped, and pushed back when its undo throws
undo(cs, throws) ==
  IF cs.undoStack = << >> THEN [cs EXCEPT !.last = [op |-> "undo", ended |-> "false"]]
  ELSE IF throws
    THEN [cs EXCEPT !.undoStack = Append(Pop(@), cs.undoStack[Len(cs.undoStack)]),
                    !.last = [op |-> "undo", ended |-> "threw"]]
  ELSE [cs EXCEPT !.undoStack = Pop(@),
                  !.redoStack = Append(@, cs.undoStack[Len(cs.undoStack)]),
                  !.last = [op |-> "undo", ended |-> "returned"]]

\* CommandStack.redo(): the command is popped, and pushed back when its execute throws
redo(cs, throws) ==
  IF cs.redoStack = << >> THEN [cs EXCEPT !.last = [op |-> "redo", ended |-> "false"]]
  ELSE IF throws
    THEN [cs EXCEPT !.redoStack = Append(Pop(@), cs.redoStack[Len(cs.redoStack)]),
                    !.last = [op |-> "redo", ended |-> "threw"]]
  ELSE [cs EXCEPT !.redoStack = Pop(@),
                  !.undoStack = Append(@, cs.redoStack[Len(cs.redoStack)]),
                  !.last = [op |-> "redo", ended |-> "returned"]]

InitStack ==
  /\ doc = HostedDocument
  /\ files = [q \in ModulePathSet |-> << >>]
  /\ store = createDiagram
  /\ exp = IdleExport
  /\ net = {}
  /\ delivered = None
  /\ gen = 0
  /\ win = WindowOf(HostedDocument)
  /\ page = "running"
  /\ localStorage = EmptyStorage
  /\ now = 0
  /\ userChanged = FALSE
  /\ exported = createDiagram
  /\ seedThrew = FALSE
  /\ input = << >>
  /\ output = Some(NewCommandStack)

\* a controller executes a new command
Execute(throws) ==
  /\ Get(output).issued < MaxCommands
  /\ output' = Some([execute(Get(output), Get(output).issued + 1, throws)
                       EXCEPT !.issued = @ + 1])
  /\ UNCHANGED << doc, store, page, localStorage, now, userChanged, exported, seedThrew,
                  files, exp, net, delivered, gen, win, input >>

Undo(throws) ==
  /\ output' = Some(undo(Get(output), throws))
  /\ UNCHANGED << doc, store, page, localStorage, now, userChanged, exported, seedThrew,
                  files, exp, net, delivered, gen, win, input >>

Redo(throws) ==
  /\ output' = Some(redo(Get(output), throws))
  /\ UNCHANGED << doc, store, page, localStorage, now, userChanged, exported, seedThrew,
                  files, exp, net, delivered, gen, win, input >>

NextStack ==
  \/ \E throws \in BOOLEAN : Execute(throws)
  \/ \E throws \in BOOLEAN : Undo(throws)
  \/ \E throws \in BOOLEAN : Redo(throws)

SpecStack == InitStack /\ [][NextStack]_vars

\* the entries of both stacks
History(cs) == cs.undoStack \o cs.redoStack

\* C30: a call that ends with the command's exception leaves both stacks as they
\* were, with the command of undo on top of the undo stack and that of redo on top
\* of the redo stack; and no command is ever twice in the history
C30_FailedCommandKept ==
  [][/\ Get(output').last.ended = "threw" =>
          /\ Get(output').undoStack = Get(output).undoStack
          /\ Get(output').redoStack = Get(output).redoStack
          /\ Get(output').last.op = "undo" => Get(output).undoStack # << >>
          /\ Get(output').last.op = "redo" => Get(output).redoStack # << >>
     /\ \A i, j \in 1..Len(History(Get(output'))) :
          History(Get(output'))[i] = History(Get(output'))[j] => i = j]_vars

\* the undo of a command has thrown while both stacks held a command
C30_Witness ==
  /\ Get(output).last = [op |-> "undo", ended |-> "threw"]
  /\ Get(output).undoStack # << >>
  /\ Get(output).redoStack # << >>

====
